---- MODULE Spec2Model ----
(***************************************************************************)
(* Model of the hierarchical allocator process                             *)
(* (src/master/allocator/mesos/hierarchical.cpp).                          *)
(*                                                                         *)
(* The allocator is a single actor: every handler below is one atomic      *)
(* action, except the allocation run (_allocate), which is split into its  *)
(* loop iterations; while a run is in progress (run.pc # "idle") no other  *)
(* handler is enabled, as in the actor.                                    *)
(***************************************************************************)
EXTENDS Integers, Sequences, FiniteSets, TLC

(***************************************************************************)
(* Bounds of the model.                                                    *)
(***************************************************************************)
\* Number of master operations (handler calls other than the steps of an
\* allocation run) in one behaviour.
MaxOps == 4

\* Number of offer / inverse offer filters created in one behaviour.
MaxFilters == 2

(***************************************************************************)
(* Identifiers.                                                            *)
(***************************************************************************)
SlaveIds == {"a1", "a2"}
FrameworkIds == {"f1", "f2"}

\* A role is the sequence of the components of its slash-delimited name:
\* "b/c" is <<"b", "c">>.
RoleQ == <<"q">>
RoleB == <<"b">>
RoleBC == <<"b", "c">>
Roles == {RoleQ, RoleB, RoleBC}

\* The reservation role of an unreserved resource ("*").
Unreserved == <<>>

None == "none"

\* Option<T> of a structured value: Nothing or Some(x).
Nothing == <<>>
Some(x) == <<x>>

(***************************************************************************)
(* Roles                                                                   *)
(***************************************************************************)
\* strings::contains(role, "/")
isHierarchical(role) == Len(role) > 1

\* role.substr(0, role.find('/'))
topLevelRole(role) == SubSeq(role, 1, 1)

\* roles::ancestors(role): the proper, non-empty prefixes of the role.
ancestors(role) == {SubSeq(role, 1, n) : n \in 1..(Len(role) - 1)}

\* role == reservationRole || strings::startsWith(role, reservationRole + "/")
isRoleOrDescendant(role, reservationRole) ==
  /\ Len(reservationRole) <= Len(role)
  /\ SubSeq(role, 1, Len(reservationRole)) = reservationRole

(***************************************************************************)
(* The Resources algebra.  A Resources value maps each kind of resource    *)
(* (name, reservation role, revocable, shared) to the amount held;         *)
(* allocation info is kept outside, by the maps that hold allocated        *)
(* resources per role.  The amount of a shared resource is the number of   *)
(* its copies.                                                             *)
(***************************************************************************)
ScalarNames == {"cpus", "mem", "gpus", "disk"}
Names == ScalarNames \cup {"ports"}

Kind(name, rsv, rev) ==
  [name |-> name, rsv |-> rsv, rev |-> rev, shared |-> FALSE]

\* A shared persistent volume of the role.
SharedKind(name, rsv) ==
  [name |-> name, rsv |-> rsv, rev |-> FALSE, shared |-> TRUE]

CpusU == Kind("cpus", Unreserved, FALSE)
MemU == Kind("mem", Unreserved, FALSE)
GpusU == Kind("gpus", Unreserved, FALSE)
PortsU == Kind("ports", Unreserved, FALSE)
CpusRev == Kind("cpus", Unreserved, TRUE)
CpusQ == Kind("cpus", RoleQ, FALSE)
CpusB == Kind("cpus", RoleB, FALSE)
CpusBC == Kind("cpus", RoleBC, FALSE)
DiskBShared == SharedKind("disk", RoleB)

Kinds == {CpusU, MemU, GpusU, PortsU, CpusRev, CpusQ, CpusB, CpusBC,
          DiskBShared}

RECURSIVE Sum(_, _)
Sum(f, S) ==
  IF S = {} THEN 0
  ELSE LET x == CHOOSE y \in S : TRUE IN f[x] + Sum(f, S \ {x})

NoResources == [k \in Kinds |-> 0]

\* Resources built from a set of <<kind, amount>> pairs.
Res(pairs) ==
  [k \in Kinds |-> IF \E p \in pairs : p[1] = k
                   THEN (CHOOSE p \in pairs : p[1] = k)[2] ELSE 0]

isEmpty(r) == \A k \in Kinds : r[k] = 0
plus(a, b) == [k \in Kinds |-> a[k] + b[k]]
\* Resources::operator-: subtracting more than is there leaves nothing.
minus(a, b) == [k \in Kinds |-> IF a[k] >= b[k] THEN a[k] - b[k] ELSE 0]
\* Resources::contains(const Resources&)
contains(a, b) == \A k \in Kinds : a[k] >= b[k]
filter(r, P(_)) == [k \in Kinds |-> IF P(k) THEN r[k] ELSE 0]

isScalar(k) == k.name \in ScalarNames
isUnreserved(k) == k.rsv = Unreserved
isRevocable(k) == k.rev
isShared(k) == k.shared

scalars(r) == filter(r, isScalar)
nonScalars(r) == filter(r, LAMBDA k : ~isScalar(k))
unreserved(r) == filter(r, isUnreserved)
reservedAny(r) == filter(r, LAMBDA k : ~isUnreserved(k))
reserved(r, role) == filter(r, LAMBDA k : k.rsv = role)
revocable(r) == filter(r, isRevocable)
nonRevocable(r) == filter(r, LAMBDA k : ~isRevocable(k))
shared(r) == filter(r, isShared)
nonShared(r) == filter(r, LAMBDA k : ~isShared(k))
\* Resources::allocatableTo(role): unreserved resources and the
\* reservations of the role and of its ancestors.
allocatableTo(r, role) ==
  filter(r, LAMBDA k : isUnreserved(k) \/ isRoleOrDescendant(role, k.rsv))

\* Resources::reservations(): the reserved resources by reservation role
\* (roles without reservations map to nothing).
reservationRoles(r) == {k.rsv : k \in {x \in Kinds : ~isUnreserved(x) /\ r[x] > 0}}

(***************************************************************************)
(* ResourceQuantities: scalar quantity by resource name; an absent name    *)
(* is a zero quantity.                                                     *)
(***************************************************************************)
NoQuantities == [n \in ScalarNames |-> 0]

Qty(pairs) ==
  [n \in ScalarNames |-> IF \E p \in pairs : p[1] = n
                         THEN (CHOOSE p \in pairs : p[1] = n)[2] ELSE 0]

\* ResourceQuantities::fromScalarResources
fromScalarResources(r) ==
  [n \in ScalarNames |-> Sum(r, {k \in Kinds : k.name = n})]

qEmpty(q) == \A n \in ScalarNames : q[n] = 0
qPlus(a, b) == [n \in ScalarNames |-> a[n] + b[n]]
\* ResourceQuantities::operator-=: quantities never go below zero.
qMinus(a, b) == [n \in ScalarNames |-> IF a[n] >= b[n] THEN a[n] - b[n] ELSE 0]
qContains(a, b) == \A n \in ScalarNames : a[n] >= b[n]

\* Resources::contains(const ResourceQuantities&)
containsQuantities(r, q) == qContains(fromScalarResources(r), q)

(***************************************************************************)
(* Maps with a varying key set (hashmap).                                  *)
(***************************************************************************)
EmptyMap == [x \in {} |-> x]
put(f, k, v) == [x \in (DOMAIN f) \cup {k} |-> IF x = k THEN v ELSE f[x]]
erase(f, k) == [x \in (DOMAIN f) \ {k} |-> f[x]]

(***************************************************************************)
(* The sorter (weighted DRF).  A sorter holds its clients, which of them   *)
(* are active, the resources allocated to each client on each agent, and   *)
(* the total resources of each agent.                                      *)
(***************************************************************************)
NoAllocation == [s \in SlaveIds |-> NoResources]

NewSorter ==
  [clients |-> {}, active |-> {}, alloc |-> EmptyMap, total |-> NoAllocation]

\* Sorter::add(client): a new client is inactive and has no allocation.
sorterAdd(sorter, client) ==
  [sorter EXCEPT !.clients = @ \cup {client},
                 !.alloc = put(@, client, NoAllocation)]

\* Sorter::remove(client)
sorterRemove(sorter, client) ==
  [sorter EXCEPT !.clients = @ \ {client},
                 !.active = @ \ {client},
                 !.alloc = erase(@, client)]

\* Sorter::activate(client) / Sorter::deactivate(client)
sorterActivate(sorter, client) ==
  IF client \in sorter.clients
  THEN [sorter EXCEPT !.active = @ \cup {client}] ELSE sorter

sorterDeactivate(sorter, client) == [sorter EXCEPT !.active = @ \ {client}]

\* Sorter::add(slaveId, resources) / Sorter::remove(slaveId, resources)
sorterAddTotal(sorter, slaveId, r) ==
  [sorter EXCEPT !.total[slaveId] = plus(@, r)]

sorterRemoveTotal(sorter, slaveId, r) ==
  [sorter EXCEPT !.total[slaveId] = minus(@, r)]

\* Sorter::allocated(client, slaveId, resources)
sorterAllocated(sorter, client, slaveId, r) ==
  [sorter EXCEPT !.alloc[client][slaveId] = plus(@, r)]

\* Sorter::unallocated(client, slaveId, resources)
sorterUnallocated(sorter, client, slaveId, r) ==
  [sorter EXCEPT !.alloc[client][slaveId] = minus(@, r)]

\* Sorter::update(client, slaveId, oldAllocation, newAllocation)
sorterUpdate(sorter, client, slaveId, old, new) ==
  sorterAllocated(sorterUnallocated(sorter, client, slaveId, old),
                  client, slaveId, new)

\* Sorter::allocation(client): the agents on which the client holds
\* resources.
sorterAllocationEmpty(sorter, client) ==
  \A s \in SlaveIds : isEmpty(sorter.alloc[client][s])

\* Sorter::allocation(slaveId): the clients holding resources on the agent.
sorterClientsOn(sorter, slaveId) ==
  {c \in sorter.clients : ~isEmpty(sorter.alloc[c][slaveId])}

RECURSIVE SumResources(_, _)
SumResources(f, S) ==
  IF S = {} THEN NoResources
  ELSE LET x == CHOOSE y \in S : TRUE IN plus(f[x], SumResources(f, S \ {x}))

\* Sorter::totalScalarQuantities()
totalScalarQuantities(sorter) ==
  fromScalarResources(SumResources(sorter.total, SlaveIds))

\* Sorter::allocationScalarQuantities(client): a shared resource the client
\* holds several copies of on an agent counts once.
clientScalarQuantities(sorter, client) ==
  fromScalarResources(
    SumResources([s \in SlaveIds |->
                    [k \in Kinds |->
                       IF isShared(k) /\ sorter.alloc[client][s][k] > 1
                       THEN 1 ELSE sorter.alloc[client][s][k]]],
                 SlaveIds))

RECURSIVE SumQuantities(_, _)
SumQuantities(f, S) ==
  IF S = {} THEN NoQuantities
  ELSE LET x == CHOOSE y \in S : TRUE IN qPlus(f[x], SumQuantities(f, S \ {x}))

\* Sorter::allocationScalarQuantities()
allocationScalarQuantities(sorter) ==
  SumQuantities([c \in sorter.clients |-> clientScalarQuantities(sorter, c)],
                sorter.clients)

\* A share is a fraction <<numerator, denominator>>.
fracLess(x, y) == x[1] * y[2] < y[1] * x[2]

\* allocated(c, r) / total(r); a resource the cluster does not have
\* contributes no share.
resourceShare(sorter, client, name) ==
  LET total == totalScalarQuantities(sorter)[name]
  IN  IF total = 0 THEN <<0, 1>>
      ELSE <<clientScalarQuantities(sorter, client)[name], total>>

\* dominantShare(c) = max over resource r of allocated(c, r) / total(r)
dominantShare(sorter, client) ==
  LET n == CHOOSE x \in ScalarNames :
             \A y \in ScalarNames :
               ~fracLess(resourceShare(sorter, client, x),
                         resourceShare(sorter, client, y))
  IN  resourceShare(sorter, client, n)

\* weightedShare(c) = dominantShare(c) / weight(c)
weightedShare(sorter, client, weight) ==
  LET d == dominantShare(sorter, client) IN <<d[1], d[2] * weight>>

\* The secondary key that breaks ties: the client's name.  Role names and
\* framework ids are ranked apart (a sorter holds one kind of client).
roleRank == (RoleB :> 1) @@ (RoleBC :> 2) @@ (RoleQ :> 3)
frameworkRank == ("f1" :> 1) @@ ("f2" :> 2)

sortsBefore(sorter, weightOf, rankOf, c, d) ==
  LET sc == weightedShare(sorter, c, weightOf[c])
      sd == weightedShare(sorter, d, weightOf[d])
  IN  \/ fracLess(sc, sd)
      \/ ~fracLess(sd, sc) /\ rankOf[c] < rankOf[d]

RECURSIVE sortClients(_, _, _, _)
sortClients(sorter, weightOf, rankOf, S) ==
  IF S = {} THEN <<>>
  ELSE LET first == CHOOSE c \in S :
                      \A d \in S \ {c} :
                        sortsBefore(sorter, weightOf, rankOf, c, d)
       IN  <<first>> \o sortClients(sorter, weightOf, rankOf, S \ {first})

\* Sorter::sort(): the active clients by ascending weighted share.
sort(sorter, weightOf, rankOf) ==
  sortClients(sorter, weightOf, rankOf, sorter.active)

(***************************************************************************)
(* State of the allocator process.                                         *)
(***************************************************************************)
VARIABLES
  options,                     \* Options given to initialize()
  slaves,                      \* SlaveID -> Slave
  frameworks,                  \* FrameworkID -> Framework
  roles,                       \* role -> frameworks tracked under it
  roleSorter,
  quotaRoleSorter,
  frameworkSorters,            \* role -> sorter of the role's frameworks
  quotaGuarantees,             \* role -> guaranteed quantities
  reservationScalarQuantities, \* role -> reserved quantities (hierarchical)
  weights,                     \* role -> weight given by updateWeights
  whitelist,                   \* Option of a set of hostnames
  paused,
  expectedAgentCount,          \* Option of a number of agents
  allocationCandidates,
  allocation,                  \* the future of the dispatched run
  dispatched,                  \* _allocate dispatches not yet executed
  resumeTimer,                 \* the delayed resume() of recover() is due
  expiryTimers,                \* filters whose timeout has not fired yet
  expiryDispatches,            \* _expire / expire calls waiting in the queue
  run,                         \* the allocation run in progress
  offerCallback,               \* offers passed to the master by the last run
  inverseOfferCallback,        \* inverse offers passed by the last run
  inverseOffers,               \* inverse offers the master has not answered
  beforeRun,                   \* history: the allocations when the last run began
  clock,                       \* time, armed timers and the process's queue
  op,                          \* the handler that ran last
  maxOps,                      \* master operations a behaviour is followed for
  nops,                        \* master operations so far
  nfilters                     \* filters created so far

registryVars ==
  <<roles, roleSorter, quotaRoleSorter, frameworkSorters>>
dispatchVars == <<allocationCandidates, allocation, dispatched>>
timerVars == <<resumeTimer, expiryTimers, expiryDispatches>>
callbackVars ==
  <<offerCallback, inverseOfferCallback, inverseOffers, beforeRun>>

vars ==
  <<options, slaves, frameworks, roles, roleSorter, quotaRoleSorter,
    frameworkSorters, quotaGuarantees, reservationScalarQuantities, weights,
    whitelist, paused, expectedAgentCount, allocationCandidates, allocation,
    dispatched, resumeTimer, expiryTimers, expiryDispatches, run,
    offerCallback, inverseOfferCallback, inverseOffers, beforeRun, clock, op,
    maxOps, nops, nfilters>>

FoldSet(f(_, _), base, S) ==
  LET iter[T \in SUBSET S] ==
        IF T = {} THEN base
        ELSE LET x == CHOOSE y \in T : TRUE IN f(x, iter[T \ {x}])
  IN  iter[S]

(***************************************************************************)
(* Slave                                                                   *)
(***************************************************************************)
NoAllocations == [r \in Roles |-> NoResources]

\* The allocated resources with their allocation info stripped.
unallocate(allocated) == SumResources(allocated, Roles)

\* Slave::getAvailable(): total - allocated; shared resources can be offered
\* while they are in use and are always part of what is available.
getAvailable(slave) ==
  plus(minus(nonShared(slave.total), nonShared(unallocate(slave.allocated))),
       shared(slave.total))

\* Slave::hasGpu()
hasGpu(slave) == fromScalarResources(slave.total)["gpus"] > 0

\* Slave::allocate / Slave::unallocate of resources allocated to one role.
slaveAllocate(slave, role, r) ==
  [slave EXCEPT !.allocated[role] = plus(@, r)]

slaveUnallocate(slave, role, r) ==
  [slave EXCEPT !.allocated[role] = minus(@, r)]

NewMaintenance(unavailability) ==
  [unavailability |-> unavailability,
   offersOutstanding |-> {},
   statuses |-> EmptyMap]

(***************************************************************************)
(* Framework                                                               *)
(***************************************************************************)
NewFramework(info, suppressedRoles, active) ==
  [roles |-> info.roles,
   suppressedRoles |-> suppressedRoles,
   capabilities |-> info.capabilities,
   active |-> active,
   minAllocatableResources |-> info.minAllocatableResources,
   offerFilters |-> {},
   inverseOfferFilters |-> {}]

(***************************************************************************)
(* Tracking of frameworks and allocations in the role registry and the     *)
(* sorters.  The helpers work on a record of the four variables.           *)
(***************************************************************************)
Tracking ==
  [roles |-> roles,
   roleSorter |-> roleSorter,
   quotaRoleSorter |-> quotaRoleSorter,
   frameworkSorters |-> frameworkSorters]

\* The allocations recorded in the sorters and in the agents.
Allocations ==
  [roleSorter |-> roleSorter.alloc,
   quotaRoleSorter |-> quotaRoleSorter.alloc,
   frameworkSorters |->
     [role \in DOMAIN frameworkSorters |-> frameworkSorters[role].alloc],
   allocated |-> [s \in DOMAIN slaves |-> slaves[s].allocated]]

setTracking(T) ==
  /\ roles' = T.roles
  /\ roleSorter' = T.roleSorter
  /\ quotaRoleSorter' = T.quotaRoleSorter
  /\ frameworkSorters' = T.frameworkSorters

isFrameworkTrackedUnderRole(T, frameworkId, role) ==
  /\ role \in DOMAIN T.roles
  /\ frameworkId \in T.roles[role]

trackFrameworkUnderRole(T, sl, frameworkId, role) ==
  LET totals == [s \in SlaveIds |->
                   IF s \in DOMAIN sl THEN sl[s].total ELSE NoResources]
      T1 == IF role \notin DOMAIN T.roles
            THEN [T EXCEPT
                    !.roles = put(@, role, {}),
                    !.roleSorter = sorterActivate(sorterAdd(@, role), role),
                    !.frameworkSorters =
                      put(@, role, [NewSorter EXCEPT !.total = totals])]
            ELSE T
  IN  [T1 EXCEPT !.roles[role] = @ \cup {frameworkId},
                 !.frameworkSorters[role] = sorterAdd(@, frameworkId)]

\* untrackFrameworkUnderRole that keeps a role without frameworks.
untrackFrameworkUnderRoleKeepsRole(T, frameworkId, role) ==
  [T EXCEPT !.roles[role] = @ \ {frameworkId},
            !.frameworkSorters[role] = sorterRemove(@, frameworkId)]

untrackFrameworkUnderRole(T, frameworkId, role) ==
  LET T1 == [T EXCEPT !.roles[role] = @ \ {frameworkId},
                      !.frameworkSorters[role] = sorterRemove(@, frameworkId)]
  IN  IF T1.roles[role] = {}
      THEN [T1 EXCEPT !.roles = erase(@, role),
                      !.roleSorter = sorterRemove(@, role),
                      !.frameworkSorters = erase(@, role)]
      ELSE T1

\* trackAllocatedResources for the resources allocated to one role.
trackAllocatedRole(T, sl, guarantees, slaveId, frameworkId, role, r) ==
  LET T1 == IF ~isFrameworkTrackedUnderRole(T, frameworkId, role)
            THEN trackFrameworkUnderRole(T, sl, frameworkId, role)
            ELSE T
  IN  [T1 EXCEPT
         !.roleSorter = sorterAllocated(@, role, slaveId, r),
         !.frameworkSorters[role] =
           sorterAllocated(@, frameworkId, slaveId, r),
         !.quotaRoleSorter =
           IF role \in DOMAIN guarantees
           THEN sorterAllocated(@, role, slaveId, nonRevocable(r))
           ELSE @]

\* trackAllocatedResources: `allocated` maps each allocation role to the
\* resources allocated to it.
trackAllocatedResources(T, sl, guarantees, slaveId, frameworkId, allocated) ==
  FoldSet(LAMBDA role, acc :
            trackAllocatedRole(acc, sl, guarantees, slaveId, frameworkId,
                               role, allocated[role]),
          T, {role \in Roles : ~isEmpty(allocated[role])})

\* untrackAllocatedResources that leaves the quota role sorter alone.
untrackAllocatedRoleNoQuota(T, guarantees, slaveId, frameworkId, role, r) ==
  [T EXCEPT
     !.frameworkSorters[role] = sorterUnallocated(@, frameworkId, slaveId, r),
     !.roleSorter = sorterUnallocated(@, role, slaveId, r)]

untrackAllocatedRole(T, guarantees, slaveId, frameworkId, role, r) ==
  [T EXCEPT
     !.frameworkSorters[role] = sorterUnallocated(@, frameworkId, slaveId, r),
     !.roleSorter = sorterUnallocated(@, role, slaveId, r),
     !.quotaRoleSorter =
       IF role \in DOMAIN guarantees
       THEN sorterUnallocated(@, role, slaveId, nonRevocable(r))
       ELSE @]

untrackAllocatedResources(T, guarantees, slaveId, frameworkId, allocated) ==
  FoldSet(LAMBDA role, acc :
            untrackAllocatedRole(acc, guarantees, slaveId, frameworkId,
                                 role, allocated[role]),
          T, {role \in Roles : ~isEmpty(allocated[role])})

(***************************************************************************)
(* Reservation tracking                                                    *)
(***************************************************************************)
\* The scalar quantities reserved in `total` to the role or to one of its
\* descendants: what trackReservations adds to, and untrackReservations
\* removes from, the role's entry.
reservedQuantities(total, role) ==
  fromScalarResources(
    scalars(filter(total, LAMBDA k : ~isUnreserved(k)
                                     /\ isRoleOrDescendant(k.rsv, role))))

quantitiesOf(tracker, role) ==
  IF role \in DOMAIN tracker THEN tracker[role] ELSE NoQuantities

trackedRoles(total) ==
  UNION {{role} \cup ancestors(role) : role \in reservationRoles(scalars(total))}

trackReservations(tracker, total) ==
  [role \in (DOMAIN tracker) \cup trackedRoles(total) |->
     qPlus(quantitiesOf(tracker, role), reservedQuantities(total, role))]

untrackReservations(tracker, total) ==
  LET updated == [role \in DOMAIN tracker |->
                    qMinus(tracker[role], reservedQuantities(total, role))]
  IN  [role \in {x \in DOMAIN tracker : ~qEmpty(updated[x])} |-> updated[role]]

(***************************************************************************)
(* Handlers.  A handler runs when no allocation run is in progress.        *)
(***************************************************************************)
IdleRun == [pc |-> "idle"]

\* The clock when time is not followed: a timer that is armed may fire at
\* any moment and the dispatches in the queue run in any order.
Untimed == [timed |-> FALSE]

\* The key of the loop's timer among the timers; those of the filters have
\* the filters' ids, which start at 1.
LoopTimer == 0

\* The clock when time is followed.  `loop` is the periodic loop of
\* initialize(): "armed" while its timer runs, "fired" once the timer
\* dispatched allocate(), "waiting" while the future that allocate()
\* returned is pending.  `timers` holds the timers of the loop and of the
\* filters in the order of their creation, `queue` the dispatches of the timers and of the
\* allocator to itself in the order they were made.  `shielded` is history:
\* the filters that a run of the periodic loop found installed;
\* `whilePaused` the filters installed while the allocator was paused.
startLoop(_options) ==
  [timed |-> TRUE, now |-> 0, loop |-> "armed",
   timers |-> <<[key |-> LoopTimer, deadline |-> _options.allocationInterval]>>,
   queue |-> <<>>, shielded |-> {}, whilePaused |-> {}]

\* A step leaves the clock alone unless time is followed; the timed steps
\* say themselves what happens to the clock.
untimed == IF clock.timed THEN TRUE ELSE clock' = clock

Idle == run.pc = "idle"

\* A call of the master: counts against the bound on operations.
masterCall(name, frameworkId, slaveId) ==
  /\ Idle
  /\ nops < maxOps
  /\ nops' = nops + 1
  /\ op' = [name |-> name, frameworkId |-> frameworkId, slaveId |-> slaveId]
  /\ untimed
  /\ UNCHANGED <<options, maxOps, run>>

\* A step of the allocator that is not a call of the master: a timer, or
\* a dispatch of the allocator to itself.
internalCall(name, frameworkId, slaveId) ==
  /\ Idle
  /\ op' = [name |-> name, frameworkId |-> frameworkId, slaveId |-> slaveId]
  /\ untimed
  /\ UNCHANGED <<options, maxOps, run, nops>>

\* allocate(slaveIds) that forgets the agents it is given.
allocateWithoutCandidates(isPaused, slaveIds) ==
  IF isPaused
  THEN UNCHANGED dispatchVars
  ELSE /\ UNCHANGED allocationCandidates
       /\ IF allocation # "pending"
          THEN /\ allocation' = "pending"
               /\ dispatched' = dispatched + 1
          ELSE UNCHANGED <<allocation, dispatched>>

\* allocate(slaveIds) that does not look at the pause.
allocateWhilePaused(isPaused, slaveIds) ==
  /\ allocationCandidates' = allocationCandidates \cup slaveIds
  /\ IF allocation # "pending"
     THEN /\ allocation' = "pending"
          /\ dispatched' = dispatched + 1
     ELSE UNCHANGED <<allocation, dispatched>>

\* allocate(slaveIds) that dispatches a run at every request.
allocateAlwaysDispatching(isPaused, slaveIds) ==
  IF isPaused
  THEN UNCHANGED dispatchVars
  ELSE /\ allocationCandidates' = allocationCandidates \cup slaveIds
       /\ allocation' = "pending"
       /\ dispatched' = dispatched + 1

\* allocate(slaveIds), called while the allocator is paused or not.
allocate(isPaused, slaveIds) ==
  IF isPaused
  THEN UNCHANGED dispatchVars
  ELSE /\ allocationCandidates' = allocationCandidates \cup slaveIds
       /\ IF allocation # "pending"
          THEN /\ allocation' = "pending"
               /\ dispatched' = dispatched + 1
          ELSE UNCHANGED <<allocation, dispatched>>

\* The offer filters of a framework that are destroyed lose their timers.
cancelTimers(fws) ==
  expiryTimers' =
    expiryTimers \cap
      UNION {{x.id : x \in fws[f].offerFilters \cup fws[f].inverseOfferFilters}
             : f \in DOMAIN fws}

\* The loop of deactivateFramework over the framework's roles.
deactivateInSorters(T, frameworkId, roleSet) ==
  FoldSet(LAMBDA role, acc :
            [acc EXCEPT !.frameworkSorters[role] =
                          sorterDeactivate(@, frameworkId)],
          T, roleSet)

addFramework(frameworkId, info, used, active, suppressedRoles) ==
  /\ masterCall("addFramework", frameworkId, None)
  /\ frameworkId \notin DOMAIN frameworks
  /\ LET framework == NewFramework(info, suppressedRoles, active)
         T1 == FoldSet(LAMBDA role, acc :
                 LET T == trackFrameworkUnderRole(acc, slaves, frameworkId, role)
                 IN  [T EXCEPT !.frameworkSorters[role] =
                         IF role \in suppressedRoles
                         THEN sorterDeactivate(@, frameworkId)
                         ELSE sorterActivate(@, frameworkId)],
                 Tracking, framework.roles)
         T2 == FoldSet(LAMBDA slaveId, acc :
                 trackAllocatedResources(acc, slaves, quotaGuarantees,
                                         slaveId, frameworkId, used[slaveId]),
                 T1, (DOMAIN used) \cap (DOMAIN slaves))
     IN  IF active
         THEN /\ frameworks' = put(frameworks, frameworkId, framework)
              /\ setTracking(T2)
              /\ allocate(paused, DOMAIN slaves)
         ELSE \* deactivateFramework(frameworkId)
              /\ frameworks' = put(frameworks, frameworkId,
                                   [framework EXCEPT !.active = FALSE])
              /\ setTracking(deactivateInSorters(T2, frameworkId,
                                                 framework.roles))
              /\ UNCHANGED dispatchVars
  /\ UNCHANGED <<slaves, quotaGuarantees, reservationScalarQuantities, weights,
                 whitelist, paused, expectedAgentCount, timerVars,
                 callbackVars, nfilters>>

\* The loop of removeFramework over the roles of the framework.
untrackFramework(T0, guarantees, frameworkId, framework) ==
  FoldSet(LAMBDA role, acc :
            IF \/ role \notin DOMAIN acc.frameworkSorters
               \/ frameworkId \notin acc.frameworkSorters[role].clients
            THEN acc
            ELSE LET allocated ==
                       acc.frameworkSorters[role].alloc[frameworkId]
                     T == FoldSet(LAMBDA slaveId, a :
                            untrackAllocatedRole(a, guarantees,
                              slaveId, frameworkId, role,
                              allocated[slaveId]),
                            acc,
                            {x \in SlaveIds : ~isEmpty(allocated[x])})
                 IN  untrackFrameworkUnderRole(T, frameworkId, role),
          T0, framework.roles)

removeFramework(frameworkId) ==
  /\ masterCall("removeFramework", frameworkId, None)
  /\ frameworkId \in DOMAIN frameworks
  /\ LET framework == frameworks[frameworkId]
         T1 == untrackFramework(Tracking, quotaGuarantees, frameworkId,
                                framework)
     IN  /\ setTracking(T1)
         /\ frameworks' = erase(frameworks, frameworkId)
         /\ cancelTimers(frameworks')
  /\ UNCHANGED <<slaves, quotaGuarantees, reservationScalarQuantities, weights,
                 whitelist, paused, expectedAgentCount, dispatchVars,
                 resumeTimer, expiryDispatches, callbackVars, nfilters>>

\* activateFramework that activates the framework under all of its roles.
activateFrameworkAllRoles(frameworkId) ==
  /\ masterCall("activateFramework", frameworkId, None)
  /\ frameworkId \in DOMAIN frameworks
  /\ frameworks' = [frameworks EXCEPT ![frameworkId].active = TRUE]
  /\ setTracking(
       FoldSet(LAMBDA role, acc :
                 [acc EXCEPT !.frameworkSorters[role] =
                               sorterActivate(@, frameworkId)],
               Tracking, frameworks[frameworkId].roles))
  /\ allocate(paused, DOMAIN slaves)
  /\ UNCHANGED <<slaves, quotaGuarantees, reservationScalarQuantities, weights,
                 whitelist, paused, expectedAgentCount, timerVars,
                 callbackVars, nfilters>>

activateFramework(frameworkId) ==
  /\ masterCall("activateFramework", frameworkId, None)
  /\ frameworkId \in DOMAIN frameworks
  /\ LET framework == frameworks[frameworkId]
     IN  /\ frameworks' = [frameworks EXCEPT ![frameworkId].active = TRUE]
         /\ setTracking(
              FoldSet(LAMBDA role, acc :
                        IF role \notin framework.suppressedRoles
                        THEN [acc EXCEPT !.frameworkSorters[role] =
                                sorterActivate(@, frameworkId)]
                        ELSE acc,
                      Tracking, framework.roles))
  /\ allocate(paused, DOMAIN slaves)
  /\ UNCHANGED <<slaves, quotaGuarantees, reservationScalarQuantities, weights,
                 whitelist, paused, expectedAgentCount, timerVars,
                 callbackVars, nfilters>>

deactivateFramework(frameworkId) ==
  /\ masterCall("deactivateFramework", frameworkId, None)
  /\ frameworkId \in DOMAIN frameworks
  /\ setTracking(deactivateInSorters(Tracking, frameworkId,
                                     frameworks[frameworkId].roles))
  /\ frameworks' = [frameworks EXCEPT ![frameworkId].active = FALSE,
                                      ![frameworkId].offerFilters = {},
                                      ![frameworkId].inverseOfferFilters = {}]
  /\ cancelTimers(frameworks')
  /\ UNCHANGED <<slaves, quotaGuarantees, reservationScalarQuantities, weights,
                 whitelist, paused, expectedAgentCount, dispatchVars,
                 resumeTimer, expiryDispatches, callbackVars, nfilters>>

\* suppressRoles(frameworkId, roles) on the framework record and the sorters.
suppressRoles(T, frameworkId, roleSet) ==
  deactivateInSorters(T, frameworkId, roleSet)

\* unsuppressRoles(frameworkId, roles)
unsuppressRoles(T, frameworkId, roleSet) ==
  FoldSet(LAMBDA role, acc :
            [acc EXCEPT !.frameworkSorters[role] =
                          sorterActivate(@, frameworkId)],
          T, roleSet)

\* The unsubscribed roles leave the framework deactivated and tracked.
unsubscribeKeepsTracking(T0, frameworkId, roleSet) ==
  deactivateInSorters(T0, frameworkId, roleSet)

\* The loop of updateFramework over the roles the framework unsubscribes
\* from: the sorter part.
unsubscribe(T0, frameworkId, roleSet) ==
  FoldSet(LAMBDA role, acc :
            LET T == [acc EXCEPT !.frameworkSorters[role] =
                                   sorterDeactivate(@, frameworkId)]
            IN  IF sorterAllocationEmpty(T.frameworkSorters[role],
                                         frameworkId)
                THEN untrackFrameworkUnderRole(T, frameworkId, role)
                ELSE T,
          T0, roleSet)

updateFramework(frameworkId, info, suppressedRoles) ==
  /\ masterCall("updateFramework", frameworkId, None)
  /\ frameworkId \in DOMAIN frameworks
  /\ LET framework == frameworks[frameworkId]
         oldRoles == framework.roles
         newRoles == info.roles
         T1 == FoldSet(LAMBDA role, acc :
                 IF ~isFrameworkTrackedUnderRole(acc, frameworkId, role)
                 THEN trackFrameworkUnderRole(acc, slaves, frameworkId, role)
                 ELSE acc,
                 Tracking, newRoles \ oldRoles)
         T2 == unsubscribe(T1, frameworkId, oldRoles \ newRoles)
         T3 == suppressRoles(T2, frameworkId, suppressedRoles)
         T4 == unsuppressRoles(T3, frameworkId, newRoles \ suppressedRoles)
     IN  /\ suppressedRoles \subseteq DOMAIN T2.frameworkSorters
         /\ setTracking(T4)
         /\ frameworks' =
              [frameworks EXCEPT
                 ![frameworkId].roles = newRoles,
                 ![frameworkId].capabilities = info.capabilities,
                 ![frameworkId].minAllocatableResources =
                   info.minAllocatableResources,
                 ![frameworkId].offerFilters =
                   {x \in @ : x.role \notin oldRoles \ newRoles},
                 ![frameworkId].suppressedRoles =
                   (((@ \ (oldRoles \ newRoles)) \cup suppressedRoles)
                      \ (newRoles \ suppressedRoles))]
         /\ frameworks'[frameworkId].suppressedRoles = suppressedRoles
         /\ cancelTimers(frameworks')
  /\ UNCHANGED <<slaves, quotaGuarantees, reservationScalarQuantities, weights,
                 whitelist, paused, expectedAgentCount, dispatchVars,
                 resumeTimer, expiryDispatches, callbackVars, nfilters>>

suppressOffers(frameworkId, roles_) ==
  /\ masterCall("suppressOffers", frameworkId, None)
  /\ frameworkId \in DOMAIN frameworks
  /\ roles_ \subseteq frameworks[frameworkId].roles
  /\ LET roleSet == IF roles_ = {} THEN frameworks[frameworkId].roles
                    ELSE roles_
     IN  /\ setTracking(suppressRoles(Tracking, frameworkId, roleSet))
         /\ frameworks' = [frameworks EXCEPT
                             ![frameworkId].suppressedRoles = @ \cup roleSet]
  /\ UNCHANGED <<slaves, quotaGuarantees, reservationScalarQuantities, weights,
                 whitelist, paused, expectedAgentCount, dispatchVars,
                 timerVars, callbackVars, nfilters>>

\* reviveOffers that clears the offer filters of every role.
reviveOffersOfAllRoles(frameworkId, roles_) ==
  /\ masterCall("reviveOffers", frameworkId, None)
  /\ frameworkId \in DOMAIN frameworks
  /\ roles_ \subseteq frameworks[frameworkId].roles
  /\ LET roleSet == IF roles_ = {} THEN frameworks[frameworkId].roles
                    ELSE roles_
     IN  /\ setTracking(unsuppressRoles(Tracking, frameworkId, roleSet))
         /\ frameworks' = [frameworks EXCEPT
                             ![frameworkId].inverseOfferFilters = {},
                             ![frameworkId].offerFilters = {},
                             ![frameworkId].suppressedRoles = @ \ roleSet]
         /\ cancelTimers(frameworks')
  /\ allocate(paused, DOMAIN slaves)
  /\ UNCHANGED <<slaves, quotaGuarantees, reservationScalarQuantities, weights,
                 whitelist, paused, expectedAgentCount, resumeTimer,
                 expiryDispatches, callbackVars, nfilters>>

\* `roles_` are roles the framework is tracked under: unsuppressRoles()
\* CHECKs that the role has a framework sorter, and the sorter activates a
\* client it has.
reviveOffers(frameworkId, roles_) ==
  /\ masterCall("reviveOffers", frameworkId, None)
  /\ frameworkId \in DOMAIN frameworks
  /\ \A role \in roles_ :
       /\ role \in DOMAIN frameworkSorters
       /\ frameworkId \in frameworkSorters[role].clients
  /\ LET roleSet == IF roles_ = {} THEN frameworks[frameworkId].roles
                    ELSE roles_
     IN  /\ setTracking(unsuppressRoles(Tracking, frameworkId, roleSet))
         /\ frameworks' = [frameworks EXCEPT
                             ![frameworkId].inverseOfferFilters = {},
                             ![frameworkId].offerFilters =
                               {x \in @ : x.role \notin roleSet},
                             ![frameworkId].suppressedRoles = @ \ roleSet]
         /\ cancelTimers(frameworks')
  /\ allocate(paused, DOMAIN slaves)
  /\ UNCHANGED <<slaves, quotaGuarantees, reservationScalarQuantities, weights,
                 whitelist, paused, expectedAgentCount, resumeTimer,
                 expiryDispatches, callbackVars, nfilters>>

(***************************************************************************)
(* Agents                                                                  *)
(***************************************************************************)
\* Resources::sum(used), by allocation role.
sumUsed(used) ==
  [role \in Roles |->
     SumResources([x \in DOMAIN used |-> used[x][role]], DOMAIN used)]

plusAllocations(a, b) == [role \in Roles |-> plus(a[role], b[role])]

\* The sorter part of updateSlaveTotal: the agent's old total is removed
\* from every sorter and the new one added.
updateSorterTotals(T, slaveId, oldTotal, total) ==
  [T EXCEPT
     !.roleSorter =
       sorterAddTotal(sorterRemoveTotal(@, slaveId, oldTotal), slaveId, total),
     !.frameworkSorters =
       [role \in DOMAIN @ |->
          sorterAddTotal(sorterRemoveTotal(@[role], slaveId, oldTotal),
                         slaveId, total)],
     !.quotaRoleSorter =
       sorterAddTotal(sorterRemoveTotal(@, slaveId, nonRevocable(oldTotal)),
                      slaveId, nonRevocable(total))]

\* updateSlaveTotal that tracks the new reservations on top of the old ones.
updateTrackedReservationsNoUntrack(tracker, oldTotal, total) ==
  IF reservedAny(oldTotal) # reservedAny(total)
  THEN trackReservations(tracker, total)
  ELSE tracker

\* The reservation part of updateSlaveTotal.
updateTrackedReservations(tracker, oldTotal, total) ==
  IF reservedAny(oldTotal) # reservedAny(total)
  THEN trackReservations(untrackReservations(tracker, oldTotal), total)
  ELSE tracker

\* updateSlaveTotal(slaveId, total), given the registry state T the caller
\* has reached; the result tells whether the total changed.
updateSlaveTotal(T, slaveId, total) ==
  LET oldTotal == slaves[slaveId].total
  IN  IF oldTotal = total
      THEN /\ setTracking(T)
           /\ UNCHANGED reservationScalarQuantities
      ELSE /\ setTracking(updateSorterTotals(T, slaveId, oldTotal, total))
           /\ reservationScalarQuantities' =
                updateTrackedReservations(reservationScalarQuantities,
                                          oldTotal, total)

\* removeFilters(slaveId) that leaves the inverse offer filters.
removeOfferFilters(fws, slaveId) ==
  [f \in DOMAIN fws |->
     [fws[f] EXCEPT !.offerFilters = {x \in @ : x.slaveId # slaveId}]]

\* removeFilters(slaveId)
removeFilters(fws, slaveId) ==
  [f \in DOMAIN fws |->
     [fws[f] EXCEPT
        !.inverseOfferFilters = {x \in @ : x.slaveId # slaveId},
        !.offerFilters = {x \in @ : x.slaveId # slaveId}]]

\* The hold-off of recover() that never ends by the count of agents.
recoveryNeverComplete(sl) == FALSE

\* addSlave: enough agents are registered to end the hold-off of recover().
recoveryComplete(sl) ==
  /\ paused
  /\ expectedAgentCount # Nothing
  /\ Cardinality(DOMAIN sl) >= expectedAgentCount[1]

addSlave(slaveId, info, capabilities, unavailability, total, used) ==
  /\ masterCall("addSlave", None, slaveId)
  /\ slaveId \notin DOMAIN slaves
  /\ ~paused \/ expectedAgentCount # Nothing
  /\ LET slave == [info |-> info,
                   capabilities |-> capabilities,
                   activated |-> TRUE,
                   total |-> total,
                   allocated |-> sumUsed(used),
                   maintenance |->
                     IF unavailability # Nothing
                     THEN Some(NewMaintenance(unavailability[1]))
                     ELSE Nothing]
         sl == put(slaves, slaveId, slave)
         T1 == [Tracking EXCEPT
                  !.roleSorter = sorterAddTotal(@, slaveId, total),
                  !.frameworkSorters =
                    [role \in DOMAIN @ |->
                       sorterAddTotal(@[role], slaveId, total)],
                  !.quotaRoleSorter =
                    sorterAddTotal(@, slaveId, nonRevocable(total))]
         T2 == FoldSet(LAMBDA frameworkId, acc :
                 trackAllocatedResources(acc, sl, quotaGuarantees, slaveId,
                                         frameworkId, used[frameworkId]),
                 T1, (DOMAIN used) \cap (DOMAIN frameworks))
         recovered == recoveryComplete(sl)
     IN  /\ slaves' = sl
         /\ reservationScalarQuantities' =
              trackReservations(reservationScalarQuantities, total)
         /\ setTracking(T2)
         /\ expectedAgentCount' =
              IF recovered THEN Nothing ELSE expectedAgentCount
         /\ paused' = IF recovered THEN FALSE ELSE paused
         /\ allocate(paused', {slaveId})
  /\ UNCHANGED <<frameworks, quotaGuarantees, weights, whitelist, timerVars,
                 callbackVars, nfilters>>

\* removeSlave that also forgets what the frameworks hold on the agent.
removeSlaveWithAllocations(slaveId) ==
  /\ masterCall("removeSlave", None, slaveId)
  /\ slaveId \in DOMAIN slaves
  /\ LET total == slaves[slaveId].total
         forget(sorter) ==
           [sorter EXCEPT
              !.alloc = [c \in DOMAIN @ |->
                           [@[c] EXCEPT ![slaveId] = NoResources]]]
     IN  /\ setTracking(
              [Tracking EXCEPT
                 !.roleSorter = forget(sorterRemoveTotal(@, slaveId, total)),
                 !.frameworkSorters =
                   [role \in DOMAIN @ |->
                      forget(sorterRemoveTotal(@[role], slaveId, total))],
                 !.quotaRoleSorter =
                   forget(sorterRemoveTotal(@, slaveId, nonRevocable(total)))])
         /\ reservationScalarQuantities' =
              untrackReservations(reservationScalarQuantities, total)
  /\ slaves' = erase(slaves, slaveId)
  /\ allocationCandidates' = allocationCandidates \ {slaveId}
  /\ frameworks' = removeFilters(frameworks, slaveId)
  /\ cancelTimers(frameworks')
  /\ UNCHANGED <<quotaGuarantees, weights, whitelist, paused,
                 expectedAgentCount, allocation, dispatched, resumeTimer,
                 expiryDispatches, callbackVars, nfilters>>

\* removeSlave that leaves the agent among the allocation candidates.
removeSlaveKeepsCandidate(slaveId) ==
  /\ masterCall("removeSlave", None, slaveId)
  /\ slaveId \in DOMAIN slaves
  /\ LET total == slaves[slaveId].total
     IN  /\ setTracking(
              [Tracking EXCEPT
                 !.roleSorter = sorterRemoveTotal(@, slaveId, total),
                 !.frameworkSorters =
                   [role \in DOMAIN @ |->
                      sorterRemoveTotal(@[role], slaveId, total)],
                 !.quotaRoleSorter =
                   sorterRemoveTotal(@, slaveId, nonRevocable(total))])
         /\ reservationScalarQuantities' =
              untrackReservations(reservationScalarQuantities, total)
  /\ slaves' = erase(slaves, slaveId)
  /\ frameworks' = removeFilters(frameworks, slaveId)
  /\ cancelTimers(frameworks')
  /\ UNCHANGED <<quotaGuarantees, weights, whitelist, paused,
                 expectedAgentCount, dispatchVars, resumeTimer,
                 expiryDispatches, callbackVars, nfilters>>

removeSlave(slaveId) ==
  /\ masterCall("removeSlave", None, slaveId)
  /\ slaveId \in DOMAIN slaves
  /\ LET total == slaves[slaveId].total
     IN  /\ setTracking(
              [Tracking EXCEPT
                 !.roleSorter = sorterRemoveTotal(@, slaveId, total),
                 !.frameworkSorters =
                   [role \in DOMAIN @ |->
                      sorterRemoveTotal(@[role], slaveId, total)],
                 !.quotaRoleSorter =
                   sorterRemoveTotal(@, slaveId, nonRevocable(total))])
         /\ reservationScalarQuantities' =
              untrackReservations(reservationScalarQuantities, total)
  /\ slaves' = erase(slaves, slaveId)
  /\ allocationCandidates' = allocationCandidates \ {slaveId}
  /\ frameworks' = removeFilters(frameworks, slaveId)
  /\ cancelTimers(frameworks')
  /\ UNCHANGED <<quotaGuarantees, weights, whitelist, paused,
                 expectedAgentCount, allocation, dispatched, resumeTimer,
                 expiryDispatches, callbackVars, nfilters>>

\* `total` and `capabilities` are Option values.
updateSlave(slaveId, info, total, capabilities) ==
  /\ masterCall("updateSlave", None, slaveId)
  /\ slaveId \in DOMAIN slaves
  /\ LET slave == slaves[slaveId]
         attributesChanged == info.attributes # slave.info.attributes
         newCapabilities ==
           IF capabilities # Nothing THEN capabilities[1]
           ELSE slave.capabilities
         newTotal == IF total # Nothing THEN total[1] ELSE slave.total
         updated == \/ attributesChanged
                    \/ info # slave.info
                    \/ newCapabilities # slave.capabilities
                    \/ newTotal # slave.total
     IN  /\ frameworks' = IF attributesChanged
                          THEN removeFilters(frameworks, slaveId)
                          ELSE frameworks
         /\ cancelTimers(frameworks')
         /\ slaves' = [slaves EXCEPT ![slaveId].info = info,
                                     ![slaveId].capabilities = newCapabilities,
                                     ![slaveId].total = newTotal]
         /\ updateSlaveTotal(Tracking, slaveId, newTotal)
         /\ IF updated
            THEN allocate(paused, {slaveId})
            ELSE UNCHANGED dispatchVars
  /\ UNCHANGED <<quotaGuarantees, weights, whitelist, paused,
                 expectedAgentCount, resumeTimer, expiryDispatches,
                 callbackVars, nfilters>>

addResourceProvider(slaveId, total, used) ==
  /\ masterCall("addResourceProvider", None, slaveId)
  /\ slaveId \in DOMAIN slaves
  /\ LET slave == slaves[slaveId]
         T1 == FoldSet(LAMBDA frameworkId, acc :
                 trackAllocatedResources(acc, slaves, quotaGuarantees,
                                         slaveId, frameworkId,
                                         used[frameworkId]),
                 Tracking, (DOMAIN used) \cap (DOMAIN frameworks))
         newTotal == plus(slave.total, total)
     IN  /\ updateSlaveTotal(T1, slaveId, newTotal)
         /\ slaves' = [slaves EXCEPT
                         ![slaveId].total = newTotal,
                         ![slaveId].allocated =
                           plusAllocations(@, sumUsed(used))]
  /\ UNCHANGED <<frameworks, quotaGuarantees, weights, whitelist, paused,
                 expectedAgentCount, dispatchVars, timerVars, callbackVars,
                 nfilters>>

activateSlave(slaveId) ==
  /\ masterCall("activateSlave", None, slaveId)
  /\ slaveId \in DOMAIN slaves
  /\ slaves' = [slaves EXCEPT ![slaveId].activated = TRUE]
  /\ UNCHANGED <<frameworks, registryVars, quotaGuarantees,
                 reservationScalarQuantities, weights, whitelist, paused,
                 expectedAgentCount, dispatchVars, timerVars, callbackVars,
                 nfilters>>

deactivateSlave(slaveId) ==
  /\ masterCall("deactivateSlave", None, slaveId)
  /\ slaveId \in DOMAIN slaves
  /\ slaves' = [slaves EXCEPT ![slaveId].activated = FALSE]
  /\ UNCHANGED <<frameworks, registryVars, quotaGuarantees,
                 reservationScalarQuantities, weights, whitelist, paused,
                 expectedAgentCount, dispatchVars, timerVars, callbackVars,
                 nfilters>>

updateWhitelist(_whitelist) ==
  /\ masterCall("updateWhitelist", None, None)
  /\ whitelist' = _whitelist
  /\ UNCHANGED <<slaves, frameworks, registryVars, quotaGuarantees,
                 reservationScalarQuantities, weights, paused,
                 expectedAgentCount, dispatchVars, timerVars, callbackVars,
                 nfilters>>

(***************************************************************************)
(* Allocations: updateAllocation, updateAvailable, recoverResources        *)
(***************************************************************************)
\* Resources::apply of one conversion <<consumed, converted>>.
canApply(r, conversion) == contains(r, conversion[1])
apply(r, conversion) == plus(minus(r, conversion[1]), conversion[2])

\* createStrippedScalarQuantity
strippedScalarQuantity(r) == fromScalarResources(scalars(r))

\* `offeredResources` are allocated to the one role `role`; `conversion` is
\* the resource conversion of the operation.
updateAllocation(frameworkId, slaveId, role, offeredResources, conversion) ==
  /\ masterCall("updateAllocation", frameworkId, slaveId)
  /\ slaveId \in DOMAIN slaves
  /\ frameworkId \in DOMAIN frameworks
  /\ role \in DOMAIN frameworkSorters
  /\ frameworkId \in frameworkSorters[role].clients
  /\ contains(frameworkSorters[role].alloc[frameworkId][slaveId],
              offeredResources)
  /\ contains(slaves[slaveId].allocated[role], offeredResources)
  /\ canApply(offeredResources, conversion)
  /\ LET slave == slaves[slaveId]
         consumed == conversion[1]
         converted == conversion[2]
         updatedOfferedResources == apply(offeredResources, conversion)
         T1 == [Tracking EXCEPT
                  !.frameworkSorters[role] =
                    sorterUpdate(@, frameworkId, slaveId, offeredResources,
                                 updatedOfferedResources),
                  !.roleSorter =
                    sorterUpdate(@, role, slaveId, offeredResources,
                                 updatedOfferedResources),
                  !.quotaRoleSorter =
                    IF role \in DOMAIN quotaGuarantees
                    THEN sorterUpdate(@, role, slaveId,
                                      nonRevocable(offeredResources),
                                      nonRevocable(updatedOfferedResources))
                    ELSE @]
         removedResources == IF isEmpty(converted) THEN consumed
                             ELSE NoResources
         updatedTotal == IF isEmpty(consumed) THEN slave.total
                         ELSE apply(slave.total, conversion)
     IN  /\ isEmpty(consumed) \/ canApply(slave.total, conversion)
         /\ qMinus(strippedScalarQuantity(offeredResources),
                   strippedScalarQuantity(updatedOfferedResources))
              = strippedScalarQuantity(removedResources)
         /\ slaves' = [slaves EXCEPT
                         ![slaveId].allocated[role] =
                           plus(minus(@, offeredResources),
                                updatedOfferedResources),
                         ![slaveId].total = updatedTotal]
         /\ updateSlaveTotal(T1, slaveId, updatedTotal)
  /\ UNCHANGED <<frameworks, quotaGuarantees, weights, whitelist, paused,
                 expectedAgentCount, dispatchVars, timerVars, callbackVars,
                 nfilters>>

\* updateAvailable that applies the operations to the total without looking
\* at the available resources.
updateAvailableOfTotal(slaveId, operation) ==
  /\ masterCall("updateAvailable", None, slaveId)
  /\ slaveId \in DOMAIN slaves
  /\ LET slave == slaves[slaveId]
     IN  IF ~canApply(slave.total, operation)
         THEN UNCHANGED <<slaves, registryVars, reservationScalarQuantities>>
         ELSE /\ slaves' = [slaves EXCEPT ![slaveId].total =
                              apply(slave.total, operation)]
              /\ updateSlaveTotal(Tracking, slaveId,
                                  apply(slave.total, operation))
  /\ UNCHANGED <<frameworks, quotaGuarantees, weights, whitelist, paused,
                 expectedAgentCount, dispatchVars, timerVars, callbackVars,
                 nfilters>>

\* `operation` is the conversion the offer operations amount to.
updateAvailable(slaveId, operation) ==
  /\ masterCall("updateAvailable", None, slaveId)
  /\ slaveId \in DOMAIN slaves
  /\ LET slave == slaves[slaveId]
     IN  IF ~canApply(getAvailable(slave), operation)
         THEN \* Failure(updatedAvailable.error())
              UNCHANGED <<slaves, registryVars, reservationScalarQuantities>>
         ELSE /\ canApply(slave.total, operation)
              /\ slaves' = [slaves EXCEPT ![slaveId].total =
                              apply(slave.total, operation)]
              /\ updateSlaveTotal(Tracking, slaveId,
                                  apply(slave.total, operation))
  /\ UNCHANGED <<frameworks, quotaGuarantees, weights, whitelist, paused,
                 expectedAgentCount, dispatchVars, timerVars, callbackVars,
                 nfilters>>

\* Days(365).secs()
Days365 == 31536000

\* Filters().refuse_seconds(): the default of the field.
DefaultRefuseSeconds == 5

\* A timeout that is not held to 365 days.
refuseTimeoutUnclamped(refuse_seconds) ==
  IF refuse_seconds < 0 THEN DefaultRefuseSeconds
  ELSE refuse_seconds

\* The timeout recoverResources derives from filters.refuse_seconds.
refuseTimeout(refuse_seconds) ==
  IF refuse_seconds > Days365 THEN Days365
  ELSE IF refuse_seconds < 0 THEN DefaultRefuseSeconds
  ELSE refuse_seconds

\* std::max that yields its second argument.
secondOf(a, b) == b

max(a, b) == IF a >= b THEN a ELSE b

\* `resources` are allocated to the one role `role`; `filters` is None or
\* the refuse_seconds of the filters.
recoverResources(frameworkId, slaveId, role, resources, filters) ==
  /\ masterCall("recoverResources", frameworkId, slaveId)
  /\ ~isEmpty(resources)
  /\ frameworkId \in DOMAIN frameworks => role \in DOMAIN frameworkSorters
  /\ LET known == frameworkId \in DOMAIN frameworks
         tracked == known /\ frameworkId \in frameworkSorters[role].clients
         T1 == IF tracked
               THEN untrackAllocatedRole(Tracking, quotaGuarantees, slaveId,
                                         frameworkId, role, resources)
               ELSE Tracking
         T2 == IF /\ tracked
                  /\ role \notin frameworks[frameworkId].roles
                  /\ sorterAllocationEmpty(T1.frameworkSorters[role],
                                           frameworkId)
               THEN untrackFrameworkUnderRole(T1, frameworkId, role)
               ELSE T1
         install == /\ filters # Nothing
                    /\ known
                    /\ slaveId \in DOMAIN slaves
                    /\ refuseTimeout(filters[1]) # 0
         offerFilter == [id |-> nfilters + 1,
                         role |-> role,
                         slaveId |-> slaveId,
                         resources |-> resources,
                         timeout |-> max(options.allocationInterval,
                                         refuseTimeout(filters[1]))]
     IN  /\ tracked =>
              contains(frameworkSorters[role].alloc[frameworkId][slaveId],
                       resources)
         /\ setTracking(T2)
         /\ IF slaveId \in DOMAIN slaves
            THEN /\ contains(slaves[slaveId].allocated[role], resources)
                 /\ slaves' = [slaves EXCEPT ![slaveId] =
                                 slaveUnallocate(@, role, resources)]
            ELSE UNCHANGED slaves
         /\ IF install
            THEN /\ nfilters < MaxFilters
                 /\ nfilters' = nfilters + 1
                 /\ frameworks' = [frameworks EXCEPT
                                     ![frameworkId].offerFilters =
                                       @ \cup {offerFilter}]
                 /\ expiryTimers' = expiryTimers \cup {offerFilter.id}
            ELSE UNCHANGED <<nfilters, frameworks, expiryTimers>>
  /\ UNCHANGED <<quotaGuarantees, reservationScalarQuantities, weights,
                 whitelist, paused, expectedAgentCount, dispatchVars,
                 resumeTimer, expiryDispatches, callbackVars>>

\* `unavailability` is an Option value.
updateUnavailability(slaveId, unavailability) ==
  /\ masterCall("updateUnavailability", None, slaveId)
  /\ slaveId \in DOMAIN slaves
  /\ frameworks' =
       [f \in DOMAIN frameworks |->
          [frameworks[f] EXCEPT
             !.inverseOfferFilters = {x \in @ : x.slaveId # slaveId}]]
  /\ cancelTimers(frameworks')
  /\ slaves' = [slaves EXCEPT
                  ![slaveId].maintenance =
                    IF unavailability # Nothing
                    THEN Some(NewMaintenance(unavailability[1]))
                    ELSE Nothing]
  /\ allocate(paused, {slaveId})
  /\ UNCHANGED <<registryVars, quotaGuarantees, reservationScalarQuantities,
                 weights, whitelist, paused, expectedAgentCount, resumeTimer,
                 expiryDispatches, callbackVars, nfilters>>

getInverseOfferStatuses ==
  [id \in {s \in DOMAIN slaves : slaves[s].maintenance # Nothing} |->
     slaves[id].maintenance[1].statuses]

\* updateInverseOffer() that leaves the inverse offer outstanding.
updateInverseOfferKeepsOutstanding(slaveId, frameworkId, status, filters) ==
  /\ masterCall("updateInverseOffer", frameworkId, slaveId)
  /\ frameworkId \in DOMAIN frameworks
  /\ slaveId \in DOMAIN slaves
  /\ slaves[slaveId].maintenance # Nothing
  /\ LET maintenance == slaves[slaveId].maintenance[1]
         outstanding == frameworkId \in maintenance.offersOutstanding
         install == /\ filters # Nothing
                    /\ refuseTimeout(filters[1]) # 0
         inverseOfferFilter == [id |-> nfilters + 1,
                                slaveId |-> slaveId,
                                timeout |-> refuseTimeout(filters[1])]
     IN  /\ (outstanding /\ status # Nothing) => status[1] # "UNKNOWN"
         /\ slaves' =
              IF ~outstanding THEN slaves
              ELSE [slaves EXCEPT
                      ![slaveId].maintenance =
                        Some([maintenance EXCEPT
                                !.statuses =
                                  IF status # Nothing
                                  THEN put(@, frameworkId, status[1])
                                  ELSE @])]
         /\ IF install
            THEN /\ nfilters < MaxFilters
                 /\ nfilters' = nfilters + 1
                 /\ frameworks' = [frameworks EXCEPT
                                     ![frameworkId].inverseOfferFilters =
                                       @ \cup {inverseOfferFilter}]
                 /\ expiryTimers' = expiryTimers \cup {inverseOfferFilter.id}
            ELSE UNCHANGED <<nfilters, frameworks, expiryTimers>>
  /\ inverseOffers' = inverseOffers \ {<<frameworkId, slaveId>>}
  /\ UNCHANGED <<registryVars, quotaGuarantees, reservationScalarQuantities,
                 weights, whitelist, paused, expectedAgentCount, dispatchVars,
                 resumeTimer, expiryDispatches, offerCallback,
                 inverseOfferCallback, beforeRun>>

\* `status` is None or the status of the framework's response; `filters` is
\* None or the refuse_seconds of the filters.
updateInverseOffer(slaveId, frameworkId, status, filters) ==
  /\ masterCall("updateInverseOffer", frameworkId, slaveId)
  /\ frameworkId \in DOMAIN frameworks
  /\ slaveId \in DOMAIN slaves
  /\ slaves[slaveId].maintenance # Nothing
  /\ LET maintenance == slaves[slaveId].maintenance[1]
         outstanding == frameworkId \in maintenance.offersOutstanding
         install == /\ filters # Nothing
                    /\ refuseTimeout(filters[1]) # 0
         inverseOfferFilter == [id |-> nfilters + 1,
                                slaveId |-> slaveId,
                                timeout |-> refuseTimeout(filters[1])]
     IN  /\ (outstanding /\ status # Nothing) => status[1] # "UNKNOWN"
         /\ slaves' =
              IF ~outstanding THEN slaves
              ELSE [slaves EXCEPT
                      ![slaveId].maintenance =
                        Some([maintenance EXCEPT
                                !.offersOutstanding = @ \ {frameworkId},
                                !.statuses =
                                  IF status # Nothing
                                  THEN put(@, frameworkId, status[1])
                                  ELSE @])]
         /\ IF install
            THEN /\ nfilters < MaxFilters
                 /\ nfilters' = nfilters + 1
                 /\ frameworks' = [frameworks EXCEPT
                                     ![frameworkId].inverseOfferFilters =
                                       @ \cup {inverseOfferFilter}]
                 /\ expiryTimers' = expiryTimers \cup {inverseOfferFilter.id}
            ELSE UNCHANGED <<nfilters, frameworks, expiryTimers>>
  /\ inverseOffers' = inverseOffers \ {<<frameworkId, slaveId>>}
  /\ UNCHANGED <<registryVars, quotaGuarantees, reservationScalarQuantities,
                 weights, whitelist, paused, expectedAgentCount, dispatchVars,
                 resumeTimer, expiryDispatches, offerCallback,
                 inverseOfferCallback, beforeRun>>

(***************************************************************************)
(* Filter expiry                                                           *)
(***************************************************************************)
filterOwners(id) ==
  {f \in DOMAIN frameworks : \E x \in frameworks[f].offerFilters : x.id = id}

inverseFilterOwners(id) ==
  {f \in DOMAIN frameworks :
     \E x \in frameworks[f].inverseOfferFilters : x.id = id}

\* The arguments the onReady callback of a filter has captured: the framework,
\* the role (of an offer filter) and the agent the filter was installed for.
expiryArguments(id) ==
  LET frameworkId == CHOOSE f \in filterOwners(id) \cup inverseFilterOwners(id) :
                       TRUE
      x == CHOOSE y \in frameworks[frameworkId].offerFilters
                          \cup frameworks[frameworkId].inverseOfferFilters :
             y.id = id
  IN  [id |-> id,
       inverse |-> frameworkId \in inverseFilterOwners(id),
       frameworkId |-> frameworkId,
       role |-> IF frameworkId \in inverseFilterOwners(id) THEN None
                ELSE x.role,
       slaveId |-> x.slaveId]

\* The dispatches in the queue for the filter `id` that wait for `call`.
expiryCalls(id, call) ==
  {d \in expiryDispatches : d.id = id /\ d.call = call}

\* The timeout of a filter fires: its onReady callback dispatches expire().
\* A filter that is destroyed has discarded its timeout before.
timeoutFires(id) ==
  /\ internalCall("timeout", None, None)
  /\ id \in expiryTimers
  /\ expiryTimers' = expiryTimers \ {id}
  /\ expiryDispatches' =
       expiryDispatches \cup
         {[call |-> "expire", arguments |-> expiryArguments(id), id |-> id]}
  /\ UNCHANGED <<slaves, frameworks, registryVars, quotaGuarantees,
                 reservationScalarQuantities, weights, whitelist, paused,
                 expectedAgentCount, dispatchVars, resumeTimer, callbackVars,
                 nfilters>>

\* expire() of an offer filter: dispatches _expire().
expire(id) ==
  /\ internalCall("expire", None, None)
  /\ \E d \in expiryCalls(id, "expire") :
       /\ ~d.arguments.inverse
       /\ expiryDispatches' =
            (expiryDispatches \ {d}) \cup {[d EXCEPT !.call = "_expire"]}
  /\ UNCHANGED <<slaves, frameworks, registryVars, quotaGuarantees,
                 reservationScalarQuantities, weights, whitelist, paused,
                 expectedAgentCount, dispatchVars, resumeTimer, expiryTimers,
                 callbackVars, nfilters>>

\* The filters of (frameworkId, role, slaveId) without the filter `id`, once
\* the CHECKs of _expire() on the framework, the role and the agent passed.
eraseOfferFilter(a) ==
  /\ a.frameworkId \in DOMAIN frameworks
  /\ \E x \in frameworks[a.frameworkId].offerFilters : x.role = a.role
  /\ \E x \in frameworks[a.frameworkId].offerFilters :
       x.role = a.role /\ x.slaveId = a.slaveId
  /\ frameworks' =
       [frameworks EXCEPT
          ![a.frameworkId].offerFilters =
            {x \in @ : ~(x.role = a.role /\ x.slaveId = a.slaveId
                         /\ x.id = a.id)}]

\* _expire() that leaves the filter installed.
_expireKeepsFilter(id) ==
  /\ internalCall("_expire", None, None)
  /\ \E d \in expiryCalls(id, "_expire") :
       expiryDispatches' = expiryDispatches \ {d}
  /\ UNCHANGED <<slaves, frameworks, registryVars, quotaGuarantees,
                 reservationScalarQuantities, weights, whitelist, paused,
                 expectedAgentCount, dispatchVars, resumeTimer, expiryTimers,
                 callbackVars, nfilters>>

\* _expire() that goes on to the CHECKs although offerFilter.lock() failed.
_expireUnlocked(id) ==
  /\ internalCall("_expire", None, None)
  /\ \E d \in expiryCalls(id, "_expire") :
       /\ expiryDispatches' = expiryDispatches \ {d}
       /\ eraseOfferFilter(d.arguments)
  /\ UNCHANGED <<slaves, registryVars, quotaGuarantees,
                 reservationScalarQuantities, weights, whitelist, paused,
                 expectedAgentCount, dispatchVars, resumeTimer, expiryTimers,
                 callbackVars, nfilters>>

\* _expire(): a no-op when the filter is gone (offerFilter.lock() fails).
_expire(id) ==
  /\ internalCall("_expire", None, None)
  /\ \E d \in expiryCalls(id, "_expire") :
       /\ expiryDispatches' = expiryDispatches \ {d}
       /\ IF filterOwners(id) = {}
          THEN UNCHANGED frameworks
          ELSE eraseOfferFilter(d.arguments)
  /\ UNCHANGED <<slaves, registryVars, quotaGuarantees,
                 reservationScalarQuantities, weights, whitelist, paused,
                 expectedAgentCount, dispatchVars, resumeTimer, expiryTimers,
                 callbackVars, nfilters>>

\* The inverse offer filters of (frameworkId, slaveId) without the filter
\* `id`, once the CHECKs of expire() on the framework and the agent passed.
eraseInverseOfferFilter(a) ==
  /\ a.frameworkId \in DOMAIN frameworks
  /\ \E x \in frameworks[a.frameworkId].inverseOfferFilters :
       x.slaveId = a.slaveId
  /\ frameworks' =
       [frameworks EXCEPT
          ![a.frameworkId].inverseOfferFilters =
            {x \in @ : ~(x.slaveId = a.slaveId /\ x.id = a.id)}]

\* expire() of an inverse offer filter: a no-op when the filter is gone
\* (inverseOfferFilter.lock() fails).
expireInverseOffer(id) ==
  /\ internalCall("expire", None, None)
  /\ \E d \in expiryCalls(id, "expire") :
       /\ d.arguments.inverse
       /\ expiryDispatches' = expiryDispatches \ {d}
       /\ IF inverseFilterOwners(id) = {}
          THEN UNCHANGED frameworks
          ELSE eraseInverseOfferFilter(d.arguments)
  /\ UNCHANGED <<slaves, registryVars, quotaGuarantees,
                 reservationScalarQuantities, weights, whitelist, paused,
                 expectedAgentCount, dispatchVars, resumeTimer, expiryTimers,
                 callbackVars, nfilters>>

(***************************************************************************)
(* Quota and weights                                                       *)
(***************************************************************************)
setQuota(role, guarantee) ==
  /\ masterCall("setQuota", None, None)
  /\ role \notin DOMAIN quotaGuarantees
  /\ quotaGuarantees' = put(quotaGuarantees, role, guarantee)
  /\ LET added == sorterActivate(sorterAdd(quotaRoleSorter, role), role)
     IN  quotaRoleSorter' =
           IF role \in roleSorter.clients
           THEN FoldSet(LAMBDA slaveId, acc :
                          sorterAllocated(acc, role, slaveId,
                            nonRevocable(roleSorter.alloc[role][slaveId])),
                        added,
                        {x \in SlaveIds : ~isEmpty(roleSorter.alloc[role][x])})
           ELSE added
  /\ UNCHANGED <<slaves, frameworks, roles, roleSorter, frameworkSorters,
                 reservationScalarQuantities, weights, whitelist, paused,
                 expectedAgentCount, dispatchVars, timerVars, callbackVars,
                 nfilters>>

removeQuota(role) ==
  /\ masterCall("removeQuota", None, None)
  /\ role \in DOMAIN quotaGuarantees
  /\ role \in quotaRoleSorter.clients
  /\ quotaGuarantees' = erase(quotaGuarantees, role)
  /\ quotaRoleSorter' = sorterRemove(quotaRoleSorter, role)
  /\ UNCHANGED <<slaves, frameworks, roles, roleSorter, frameworkSorters,
                 reservationScalarQuantities, weights, whitelist, paused,
                 expectedAgentCount, dispatchVars, timerVars, callbackVars,
                 nfilters>>

\* The number of agents to wait for, rounded up.
recoveryThresholdRoundedUp(_expectedAgentCount) ==
  (_expectedAgentCount * 4 + 4) \div 5

\* static_cast<int>(_expectedAgentCount * AGENT_RECOVERY_FACTOR): the factor
\* 0.8 is a double just above 4/5, the product of a non-negative int with
\* it is never below the exact product by a whole unit, so that the cast
\* yields floor(4 * n / 5).
recoveryThreshold(_expectedAgentCount) == (_expectedAgentCount * 4) \div 5

\* The loop of recover() over the quotas: setQuota(role, quota) on the
\* guarantees and on the sorter of the quota'ed roles.
recoveredGuarantees(quotas) ==
  [role \in DOMAIN quotaGuarantees \cup DOMAIN quotas |->
     IF role \in DOMAIN quotas THEN quotas[role] ELSE quotaGuarantees[role]]

recoveredQuotaRoleSorter(quotas) ==
  FoldSet(LAMBDA role, sorter :
            LET added == sorterActivate(sorterAdd(sorter, role), role)
            IN  IF role \in roleSorter.clients
                THEN FoldSet(LAMBDA slaveId, acc :
                               sorterAllocated(acc, role, slaveId,
                                 nonRevocable(roleSorter.alloc[role][slaveId])),
                             added,
                             {x \in SlaveIds :
                                ~isEmpty(roleSorter.alloc[role][x])})
                ELSE added,
          quotaRoleSorter, DOMAIN quotas)

\* recover(_expectedAgentCount, quotas), called before any agent is added
\* and before any quota is set.
recover(_expectedAgentCount, quotas) ==
  /\ Idle
  /\ nops < maxOps
  /\ nops' = nops + 1
  /\ op' = [name |-> "recover", frameworkId |-> None, slaveId |-> None,
            expectedAgentCount |-> _expectedAgentCount, quotas |-> quotas]
  /\ untimed
  /\ UNCHANGED <<options, maxOps, run>>
  /\ DOMAIN slaves = {}
  /\ quotaRoleSorter.clients = {}
  /\ DOMAIN quotas \cap DOMAIN quotaGuarantees = {}
  /\ _expectedAgentCount >= 0
  /\ IF DOMAIN quotas = {}
     THEN UNCHANGED <<quotaGuarantees, quotaRoleSorter, expectedAgentCount,
                      paused, resumeTimer>>
     ELSE /\ quotaGuarantees' = recoveredGuarantees(quotas)
          /\ quotaRoleSorter' = recoveredQuotaRoleSorter(quotas)
          /\ expectedAgentCount' =
               Some(recoveryThreshold(_expectedAgentCount))
          /\ IF recoveryThreshold(_expectedAgentCount) = 0
             THEN UNCHANGED <<paused, resumeTimer>>
             ELSE \* pause(); delay(10 minutes, self(), resume)
                  /\ paused' = TRUE
                  /\ resumeTimer' = TRUE
  /\ UNCHANGED <<slaves, frameworks, roles, roleSorter, frameworkSorters,
                 reservationScalarQuantities, weights, whitelist,
                 dispatchVars, expiryTimers, expiryDispatches, callbackVars,
                 nfilters>>

\* A resume() that leaves the allocator paused.
resumeKeepsPause ==
  /\ internalCall("resume", None, None)
  /\ resumeTimer
  /\ resumeTimer' = FALSE
  /\ UNCHANGED <<slaves, frameworks, registryVars, quotaGuarantees,
                 reservationScalarQuantities, weights, whitelist, paused,
                 expectedAgentCount, dispatchVars, expiryTimers,
                 expiryDispatches, callbackVars, nfilters>>

\* resume(), run by the timer that recover() has set.
resume ==
  /\ internalCall("resume", None, None)
  /\ resumeTimer
  /\ resumeTimer' = FALSE
  /\ paused' = FALSE
  /\ UNCHANGED <<slaves, frameworks, registryVars, quotaGuarantees,
                 reservationScalarQuantities, weights, whitelist,
                 expectedAgentCount, dispatchVars, expiryTimers,
                 expiryDispatches, callbackVars, nfilters>>

\* pause(), called from outside the allocator.
pause ==
  /\ masterCall("pause", None, None)
  /\ paused' = TRUE
  /\ UNCHANGED <<slaves, frameworks, registryVars, quotaGuarantees,
                 reservationScalarQuantities, weights, whitelist,
                 expectedAgentCount, dispatchVars, timerVars, callbackVars,
                 nfilters>>

\* resume(), called from outside the allocator.
resumeCalled ==
  /\ masterCall("resume", None, None)
  /\ paused' = FALSE
  /\ UNCHANGED <<slaves, frameworks, registryVars, quotaGuarantees,
                 reservationScalarQuantities, weights, whitelist,
                 expectedAgentCount, dispatchVars, timerVars, callbackVars,
                 nfilters>>

updateWeights(role, weight) ==
  /\ masterCall("updateWeights", None, None)
  /\ weights' = [weights EXCEPT ![role] = weight]
  /\ UNCHANGED <<slaves, frameworks, registryVars, quotaGuarantees,
                 reservationScalarQuantities, whitelist, paused,
                 expectedAgentCount, dispatchVars, timerVars, callbackVars,
                 nfilters>>

\* The periodic loop of initialize(): allocate() over all agents.
periodicAllocate ==
  /\ internalCall("allocate", None, None)
  /\ allocate(paused, DOMAIN slaves)
  /\ UNCHANGED <<slaves, frameworks, registryVars, quotaGuarantees,
                 reservationScalarQuantities, weights, whitelist, paused,
                 expectedAgentCount, timerVars, callbackVars, nfilters>>

(***************************************************************************)
(* Predicates of the allocation run                                        *)
(***************************************************************************)
isWhitelisted(slaveId) ==
  whitelist = Nothing \/ slaves[slaveId].info.hostname \in whitelist[1]

\* isFiltered that consults the implicit filters only.
isFilteredImplicitOnly(frameworkId, role, slaveId, resources) ==
  \/ /\ frameworks[frameworkId].capabilities.multiRole
     /\ ~slaves[slaveId].capabilities.multiRole
  \/ ~slaves[slaveId].capabilities.hierarchicalRole /\ isHierarchical(role)

\* isFiltered(frameworkId, role, slaveId, resources)
isFiltered(frameworkId, role, slaveId, resources) ==
  LET framework == frameworks[frameworkId]
      slave == slaves[slaveId]
  IN  \/ framework.capabilities.multiRole /\ ~slave.capabilities.multiRole
      \/ ~slave.capabilities.hierarchicalRole /\ isHierarchical(role)
      \/ \E offerFilter \in framework.offerFilters :
           /\ offerFilter.role = role
           /\ offerFilter.slaveId = slaveId
           \* RefusedOfferFilter::filter
           /\ contains(offerFilter.resources, resources)

\* isFiltered(frameworkId, slaveId), for inverse offers: a refused inverse
\* offer filter filters while its timeout is pending.
\* isFiltered(frameworkId, slaveId) that finds no filter.
isInverseOfferFilteredNever(frameworkId, slaveId) == FALSE

isInverseOfferFiltered(frameworkId, slaveId) ==
  \E inverseOfferFilter \in frameworks[frameworkId].inverseOfferFilters :
    /\ inverseOfferFilter.slaveId = slaveId
    /\ inverseOfferFilter.id \in expiryTimers

allocatable(resources, role, framework) ==
  IF isEmpty(resources) THEN FALSE
  ELSE LET _minAllocatableResources ==
             IF role \in DOMAIN framework.minAllocatableResources
             THEN Some(framework.minAllocatableResources[role])
             ELSE options.minAllocatableResources
       IN  \/ _minAllocatableResources = Nothing
           \/ _minAllocatableResources[1] = {}
           \/ \E qs \in _minAllocatableResources[1] :
                containsQuantities(resources, qs)

\* `domain` of an agent is None or the region of its fault domain.
isRemoteSlave(slave) ==
  /\ slave.info.domain # None
  /\ options.domain # slave.info.domain

\* isCapableOfReceivingAgent that finds every framework capable.
isCapableOfReceivingAnyAgent(frameworkCapabilities, slave) == TRUE

isCapableOfReceivingAgent(frameworkCapabilities, slave) ==
  /\ ~(/\ options.filterGpuResources
       /\ ~frameworkCapabilities.gpuResources
       /\ hasGpu(slave))
  /\ ~(~frameworkCapabilities.regionAware /\ isRemoteSlave(slave))

stripIncapableResources(resources, frameworkCapabilities) ==
  filter(resources,
         LAMBDA k :
           /\ frameworkCapabilities.sharedResources \/ ~isShared(k)
           /\ frameworkCapabilities.revocableResources \/ ~isRevocable(k))

\* shrinkResources(resources, target): every resource is cut down to what
\* is left of the target for its name.  (No two kinds of unreserved
\* non-revocable resources share a name, so the order in which the
\* resources are visited does not change the result.)
targetOf(target, name) == IF name \in ScalarNames THEN target[name] ELSE 0

shrinkResources(resources, target) ==
  [k \in Kinds |->
     IF resources[k] <= targetOf(target, k.name)
     THEN resources[k] ELSE targetOf(target, k.name)]

(***************************************************************************)
(* The allocation run: _allocate, __allocate, deallocate                   *)
(***************************************************************************)
shuffles(S) ==
  {p \in [1..Cardinality(S) -> S] : \A i, j \in 1..Cardinality(S) :
                                       p[i] = p[j] => i = j}

unitWeights == [f \in FrameworkIds |-> 1]

\* The consumed quota of a quota'ed role: its hierarchical reservations
\* plus the unreserved non-revocable scalars allocated to it and to its
\* sub-roles.
consumedQuota(role) ==
  qPlus(quantitiesOf(reservationScalarQuantities, role),
        SumQuantities(
          [r \in DOMAIN roles |->
             IF topLevelRole(r) = role /\ r \in roleSorter.clients
             THEN SumQuantities(
                    [s \in SlaveIds |->
                       fromScalarResources(scalars(nonRevocable(unreserved(
                         roleSorter.alloc[r][s]))))],
                    SlaveIds)
             ELSE NoQuantities],
          DOMAIN roles))

seedRequiredHeadroom(rolesConsumedQuota) ==
  SumQuantities(
    [role \in DOMAIN quotaGuarantees |->
       qMinus(quotaGuarantees[role], rolesConsumedQuota[role])],
    DOMAIN quotaGuarantees)

seedAvailableHeadroom ==
  LET totalAllocatedReservation ==
        SumQuantities(
          [r \in DOMAIN roles |->
             IF r \in roleSorter.clients
             THEN SumQuantities(
                    [s \in SlaveIds |->
                       fromScalarResources(scalars(reservedAny(
                         roleSorter.alloc[r][s])))],
                    SlaveIds)
             ELSE NoQuantities],
          DOMAIN roles)
      topLevel == {r \in DOMAIN reservationScalarQuantities :
                     ~isHierarchical(r)}
      totalReservation == SumQuantities(reservationScalarQuantities, topLevel)
      unallocatedRevocable ==
        SumQuantities(
          [s \in DOMAIN slaves |->
             fromScalarResources(scalars(revocable(getAvailable(slaves[s]))))],
          DOMAIN slaves)
  IN  qMinus(
        qMinus(
          qMinus(totalScalarQuantities(roleSorter),
                 allocationScalarQuantities(roleSorter)),
          qMinus(totalReservation, totalAllocatedReservation)),
        unallocatedRevocable)

\* _allocate() while paused: the run is skipped.
skipAllocation ==
  /\ internalCall("_allocate", None, None)
  /\ dispatched > 0
  /\ paused
  /\ dispatched' = dispatched - 1
  /\ allocation' = IF dispatched' = 0 THEN "ready" ELSE "pending"
  /\ UNCHANGED <<slaves, frameworks, registryVars, quotaGuarantees,
                 reservationScalarQuantities, weights, whitelist, paused,
                 expectedAgentCount, allocationCandidates, timerVars,
                 callbackVars, nfilters>>

\* The unreserved non-revocable scalars available on the registered agents.
freeUnreserved ==
  SumQuantities(
    [s \in DOMAIN slaves |->
       fromScalarResources(
         scalars(nonRevocable(unreserved(getAvailable(slaves[s])))))],
    DOMAIN slaves)

\* The candidates taken as they are.
candidateSlavesUnfiltered == allocationCandidates \cap DOMAIN slaves

\* The candidates __allocate() keeps: whitelisted, registered, activated.
\* (isWhitelisted CHECKs that the agent is registered: the run aborts on a
\* candidate that is not.)
candidateSlaves ==
  {s \in allocationCandidates \cap DOMAIN slaves :
     /\ isWhitelisted(s)
     /\ s \in DOMAIN slaves
     /\ slaves[s].activated}

\* _allocate() enters __allocate(): the candidates are filtered and
\* shuffled, consumed quota and headroom are seeded.
beginAllocation ==
  /\ Idle
  /\ dispatched > 0
  /\ ~paused
  /\ dispatched' = dispatched - 1
  /\ op' = [name |-> "_allocate", frameworkId |-> None, slaveId |-> None]
  /\ untimed
  /\ \E slaveIds \in shuffles(candidateSlaves) :
       LET rolesConsumedQuota ==
             [role \in DOMAIN quotaGuarantees |-> consumedQuota(role)]
       IN  run' = [pc |-> IF allocationCandidates \subseteq DOMAIN slaves
                          THEN "stage1" ELSE "aborted",
                   slaveIds |-> slaveIds,
                   i |-> 1,
                   roleList |-> <<>>,
                   frameworkList |-> <<>>,
                   rolesConsumedQuota |-> rolesConsumedQuota,
                   requiredHeadroom |->
                     seedRequiredHeadroom(rolesConsumedQuota),
                   availableHeadroom |-> seedAvailableHeadroom,
                   offeredSharedResources |-> NoAllocation,
                   heldBackForHeadroom |-> NoQuantities,
                   heldBackAgentCount |-> 0,
                   headroomChecks |-> 0,
                   \* history: what was free when the run started
                   startAvailable |-> freeUnreserved,
                   startRequired |->
                     seedRequiredHeadroom(rolesConsumedQuota),
                   \* history: the consumed quota when the run started
                   startConsumedQuota |-> rolesConsumedQuota,
                   offerable |-> EmptyMap,
                   allocations |-> <<>>]
  /\ offerCallback' = EmptyMap
  /\ inverseOfferCallback' = EmptyMap
  /\ beforeRun' = Allocations
  /\ UNCHANGED maxOps
  /\ UNCHANGED <<options, slaves, frameworks, registryVars, quotaGuarantees,
                 reservationScalarQuantities, weights, whitelist, paused,
                 expectedAgentCount, allocationCandidates, allocation,
                 timerVars, inverseOffers, nops, nfilters>>

\* The agent the run is at.
currentSlaveId == run.slaveIds[run.i]
currentRole == Head(run.roleList)

nextSlave(stage) ==
  [run EXCEPT !.pc = stage, !.i = @ + 1, !.roleList = <<>>,
              !.frameworkList = <<>>]
nextRole(stage) ==
  [run EXCEPT !.pc = stage, !.roleList = Tail(@), !.frameworkList = <<>>]
nextFramework == [run EXCEPT !.frameworkList = Tail(@)]

runStep ==
  /\ untimed
  /\ UNCHANGED maxOps
  /\ UNCHANGED <<options, frameworks, quotaGuarantees,
                 reservationScalarQuantities, weights, whitelist, paused,
                 expectedAgentCount, dispatchVars, timerVars, callbackVars,
                 op, nops, nfilters>>

\* Stage 1, `foreach (slaveId, slaveIds)`: the quota'ed roles are sorted
\* for the agent; after the last agent stage 2 starts.
stage1Slave ==
  /\ run.pc = "stage1"
  /\ run' = IF run.i > Len(run.slaveIds)
            THEN [run EXCEPT !.pc = "stage2", !.i = 1]
            ELSE [run EXCEPT !.pc = "stage1_role",
                             !.roleList = sort(quotaRoleSorter, weights, roleRank)]
  /\ UNCHANGED <<slaves, registryVars>>
  /\ runStep

\* Stage 1, `foreach (role, quotaRoleSorter->sort())`.
stage1Role ==
  /\ run.pc = "stage1_role"
  /\ run' =
       IF run.roleList = <<>> THEN nextSlave("stage1")
       ELSE IF currentRole \notin DOMAIN roles THEN nextRole("stage1_role")
       ELSE IF isEmpty(getAvailable(slaves[currentSlaveId]))
       THEN nextSlave("stage1")
       ELSE [run EXCEPT !.pc = "stage1_framework",
                        !.frameworkList =
                          sort(frameworkSorters[currentRole], unitWeights,
                               frameworkRank)]
  /\ UNCHANGED <<slaves, registryVars>>
  /\ runStep

\* `available` of the framework loops that keeps the shared resources
\* already offered in the run.
availableWithOffered(slave) == getAvailable(slave)

\* `available` of the framework loops of both stages: what is available on
\* the agent less the shared resources already offered on it in this run.
availableLessOffered(slave) ==
  minus(getAvailable(slave), run.offeredSharedResources[currentSlaveId])

\* Stage 1 with the unsatisfied guarantee subtracted the wrong way round.
stage1AllocationReversed(slave, role, framework) ==
  LET available == stripIncapableResources(availableLessOffered(slave),
                                           framework.capabilities)
      reservedForRole == nonRevocable(reserved(available, role))
      newQuotaAllocation ==
        shrinkResources(unreserved(nonRevocable(available)),
                        qMinus(run.rolesConsumedQuota[role],
                               quotaGuarantees[role]))
  IN  [newQuotaAllocation |-> newQuotaAllocation,
       toAllocate |-> plus(reservedForRole, newQuotaAllocation)]

\* Stage 1 that does not shrink the unreserved resources to the unsatisfied
\* guarantee.
stage1AllocationUnshrunk(slave, role, framework) ==
  LET available == stripIncapableResources(availableLessOffered(slave),
                                           framework.capabilities)
      reservedForRole == nonRevocable(reserved(available, role))
      newQuotaAllocation == unreserved(nonRevocable(available))
  IN  [newQuotaAllocation |-> newQuotaAllocation,
       toAllocate |->
         IF isEmpty(plus(reservedForRole, newQuotaAllocation))
         THEN NoResources
         ELSE plus(plus(reservedForRole, newQuotaAllocation),
                   nonScalars(unreserved(nonRevocable(available))))]

\* What the body of the stage 1 loop allocates to the framework: the
\* allocation as a whole and its part that satisfies quota guarantee.
stage1Allocation(slave, role, framework) ==
  LET available == stripIncapableResources(availableLessOffered(slave),
                                           framework.capabilities)
      quotaGuarantee == quotaGuarantees[role]
      reservedForRole == nonRevocable(reserved(available, role))
      unsatisfiedQuotaGuarantee ==
        qMinus(quotaGuarantee, run.rolesConsumedQuota[role])
      unreserved_ == unreserved(nonRevocable(available))
      newQuotaAllocation ==
        shrinkResources(unreserved_, unsatisfiedQuotaGuarantee)
      surplusHeadroom == qMinus(run.availableHeadroom, run.requiredHeadroom)
      nonQuotaGuaranteeResources ==
        shrinkResources(
          filter(unreserved_, LAMBDA k : targetOf(quotaGuarantee, k.name) = 0),
          surplusHeadroom)
  IN  [newQuotaAllocation |-> newQuotaAllocation,
       toAllocate |->
         IF isEmpty(plus(reservedForRole, newQuotaAllocation))
         THEN NoResources
         ELSE plus(plus(plus(reservedForRole, newQuotaAllocation),
                        nonQuotaGuaranteeResources),
                   nonScalars(unreserved_))]

\* The bookkeeping both stages do for an allocation.
recordAllocation(r, stage, slaveId, role, frameworkId, toAllocate) ==
  [r EXCEPT
     !.frameworkList = Tail(@),
     !.offeredSharedResources[slaveId] = plus(@, shared(toAllocate)),
     !.offerable =
       put(@, <<frameworkId, role, slaveId>>,
           IF <<frameworkId, role, slaveId>> \in DOMAIN @
           THEN plus(@[<<frameworkId, role, slaveId>>], toAllocate)
           ELSE toAllocate),
     !.allocations =
       Append(@, [stage |-> stage, slaveId |-> slaveId, role |-> role,
                  frameworkId |-> frameworkId, resources |-> toAllocate])]

\* An allocation that reaches the agent but not the sorters.
allocateOnSlaveUntracked(slaveId, role, frameworkId, toAllocate) ==
  /\ slaves' = [slaves EXCEPT ![slaveId] = slaveAllocate(@, role, toAllocate)]
  /\ UNCHANGED registryVars

allocateOnSlave(slaveId, role, frameworkId, toAllocate) ==
  /\ slaves' = [slaves EXCEPT ![slaveId] = slaveAllocate(@, role, toAllocate)]
  /\ setTracking(trackAllocatedRole(Tracking, slaves, quotaGuarantees,
                                    slaveId, frameworkId, role, toAllocate))

\* Stage 1, the body of `foreach (frameworkId_, frameworkSorter->sort())`.
stage1Framework ==
  /\ run.pc = "stage1_framework"
  /\ runStep
  /\ IF run.frameworkList = <<>>
     THEN /\ run' = nextRole("stage1_role")
          /\ UNCHANGED <<slaves, registryVars>>
     ELSE
       LET slaveId == currentSlaveId
           slave == slaves[slaveId]
           role == currentRole
           frameworkId == Head(run.frameworkList)
       IN
         IF isEmpty(allocatableTo(availableLessOffered(slave), role))
         THEN /\ run' = nextRole("stage1_role")
              /\ UNCHANGED <<slaves, registryVars>>
         ELSE IF \/ frameworkId \notin DOMAIN frameworks
                 \/ ~frameworks[frameworkId].active
         THEN \* CHECK(frameworks.contains(frameworkId)) or
              \* CHECK(framework.active) fails.
              /\ run' = [run EXCEPT !.pc = "aborted"]
              /\ UNCHANGED <<slaves, registryVars>>
         ELSE
           LET framework == frameworks[frameworkId]
               a == stage1Allocation(slave, role, framework)
               toAllocate == a.toAllocate
               allocatedUnreserved ==
                 fromScalarResources(scalars(unreserved(toAllocate)))
           IN
             IF \/ ~isCapableOfReceivingAgent(framework.capabilities, slave)
                \/ ~allocatable(toAllocate, role, framework)
                \/ isFiltered(frameworkId, role, slaveId, toAllocate)
             THEN /\ run' = nextFramework
                  /\ UNCHANGED <<slaves, registryVars>>
             ELSE
               /\ run' =
                    [recordAllocation(run, 1, slaveId, role, frameworkId,
                                      toAllocate)
                       EXCEPT
                         !.rolesConsumedQuota =
                           [x \in DOMAIN @ |->
                              IF x = role \/ x \in ancestors(role)
                              THEN qPlus(@[x], allocatedUnreserved)
                              ELSE @[x]],
                         !.requiredHeadroom =
                           qMinus(@, fromScalarResources(
                                       scalars(a.newQuotaAllocation))),
                         !.availableHeadroom =
                           qMinus(@, allocatedUnreserved)]
               /\ allocateOnSlave(slaveId, role, frameworkId, toAllocate)

\* Stage 2, `foreach (slaveId, slaveIds)`: all roles are sorted for the
\* agent; after the last agent the offers are sent.
stage2Slave ==
  /\ run.pc = "stage2"
  /\ run' = IF run.i > Len(run.slaveIds)
            THEN [run EXCEPT !.pc = "offer"]
            ELSE [run EXCEPT !.pc = "stage2_role",
                             !.roleList = sort(roleSorter, weights, roleRank)]
  /\ UNCHANGED <<slaves, registryVars>>
  /\ runStep

\* Stage 2 with the frameworks of a role in descending order of share.
stage2RoleByDescendingShare ==
  /\ run.pc = "stage2_role"
  /\ run' =
       IF run.roleList = <<>> THEN nextSlave("stage2")
       ELSE IF currentRole \in DOMAIN quotaGuarantees
       THEN nextRole("stage2_role")
       ELSE IF isEmpty(getAvailable(slaves[currentSlaveId]))
       THEN nextSlave("stage2")
       ELSE LET ascending == sort(frameworkSorters[currentRole], unitWeights,
                                  frameworkRank)
            IN  [run EXCEPT !.pc = "stage2_framework",
                            !.frameworkList =
                              [i \in 1..Len(ascending) |->
                                 ascending[Len(ascending) + 1 - i]]]
  /\ UNCHANGED <<slaves, registryVars>>
  /\ runStep

\* Stage 2, `foreach (role, roleSorter->sort())`.
stage2Role ==
  /\ run.pc = "stage2_role"
  /\ run' =
       IF run.roleList = <<>> THEN nextSlave("stage2")
       ELSE IF currentRole \in DOMAIN quotaGuarantees
       THEN nextRole("stage2_role")
       ELSE IF isEmpty(getAvailable(slaves[currentSlaveId]))
       THEN nextSlave("stage2")
       ELSE [run EXCEPT !.pc = "stage2_framework",
                        !.frameworkList =
                          sort(frameworkSorters[currentRole], unitWeights,
                               frameworkRank)]
  /\ UNCHANGED <<slaves, registryVars>>
  /\ runStep

\* Stage 2 without the headroom check.
stage2AllocationNoHeadroom(slave, role, framework) ==
  LET toAllocate ==
        allocatableTo(stripIncapableResources(availableLessOffered(slave),
                                              framework.capabilities), role)
  IN  [sufficientHeadroom |-> TRUE,
       headroomToAllocate |->
         fromScalarResources(nonRevocable(unreserved(scalars(toAllocate)))),
       toAllocate |-> toAllocate]

\* Stage 2 that counts what it holds back but offers it all the same.
stage2AllocationNotWithheld(slave, role, framework) ==
  LET toAllocate ==
        allocatableTo(stripIncapableResources(availableLessOffered(slave),
                                              framework.capabilities), role)
      headroomToAllocate ==
        fromScalarResources(nonRevocable(unreserved(scalars(toAllocate))))
  IN  [sufficientHeadroom |->
         qContains(qMinus(run.availableHeadroom, headroomToAllocate),
                   run.requiredHeadroom),
       headroomToAllocate |-> headroomToAllocate,
       toAllocate |-> toAllocate]

\* Stage 2 taking the agent's total for what is available on it.
stage2AllocationOfTotal(slave, role, framework) ==
  LET toAllocate == allocatableTo(slave.total, role)
  IN  [sufficientHeadroom |-> TRUE,
       headroomToAllocate |->
         fromScalarResources(nonRevocable(unreserved(scalars(toAllocate)))),
       toAllocate |-> toAllocate]

\* What the body of the stage 2 loop allocates to the framework, and
\* whether the headroom sufficed for its unreserved non-revocable scalars.
stage2Allocation(slave, role, framework) ==
  LET available == stripIncapableResources(availableLessOffered(slave),
                                           framework.capabilities)
      toAllocate == allocatableTo(available, role)
      headroomResources == nonRevocable(unreserved(scalars(toAllocate)))
      headroomToAllocate == fromScalarResources(headroomResources)
      sufficientHeadroom ==
        qContains(qMinus(run.availableHeadroom, headroomToAllocate),
                  run.requiredHeadroom)
  IN  [sufficientHeadroom |-> sufficientHeadroom,
       headroomToAllocate |-> headroomToAllocate,
       toAllocate |-> IF sufficientHeadroom THEN toAllocate
                      ELSE minus(toAllocate, headroomResources)]

\* Stage 2, the body of `foreach (frameworkId_, frameworkSorter->sort())`.
stage2Framework ==
  /\ run.pc = "stage2_framework"
  /\ runStep
  /\ IF run.frameworkList = <<>>
     THEN /\ run' = nextRole("stage2_role")
          /\ UNCHANGED <<slaves, registryVars>>
     ELSE
       LET slaveId == currentSlaveId
           slave == slaves[slaveId]
           role == currentRole
           frameworkId == Head(run.frameworkList)
       IN
         IF isEmpty(allocatableTo(availableLessOffered(slave), role))
         THEN /\ run' = nextRole("stage2_role")
              /\ UNCHANGED <<slaves, registryVars>>
         ELSE IF frameworkId \notin DOMAIN frameworks
         THEN \* CHECK(frameworks.contains(frameworkId)) fails.
              /\ run' = [run EXCEPT !.pc = "aborted"]
              /\ UNCHANGED <<slaves, registryVars>>
         ELSE
           LET framework == frameworks[frameworkId]
               a == stage2Allocation(slave, role, framework)
               held == [run EXCEPT
                          !.heldBackForHeadroom =
                            IF a.sufficientHeadroom THEN @
                            ELSE qPlus(@, a.headroomToAllocate),
                          !.heldBackAgentCount =
                            IF a.sufficientHeadroom THEN @ ELSE @ + 1,
                          \* history: the evaluations of sufficientHeadroom
                          !.headroomChecks = @ + 1]
           IN
             IF ~isCapableOfReceivingAgent(framework.capabilities, slave)
             THEN /\ run' = nextFramework
                  /\ UNCHANGED <<slaves, registryVars>>
             ELSE IF \/ ~allocatable(a.toAllocate, role, framework)
                     \/ isFiltered(frameworkId, role, slaveId, a.toAllocate)
             THEN /\ run' = [held EXCEPT !.frameworkList = Tail(@)]
                  /\ UNCHANGED <<slaves, registryVars>>
             ELSE
               /\ run' =
                    [recordAllocation(held, 2, slaveId, role, frameworkId,
                                      a.toAllocate)
                       EXCEPT
                         !.availableHeadroom =
                           IF a.sufficientHeadroom
                           THEN qMinus(@, a.headroomToAllocate) ELSE @]
               /\ allocateOnSlave(slaveId, role, frameworkId, a.toAllocate)

\* deallocate(): the frameworks holding resources on the agent in some
\* framework sorter.
holdersOn(slaveId) ==
  UNION {sorterClientsOn(frameworkSorters[role], slaveId)
         : role \in DOMAIN frameworkSorters}

maintainedCandidates ==
  {s \in allocationCandidates \cap DOMAIN slaves :
     slaves[s].maintenance # Nothing}

\* A CHECK of deallocate() fails.
deallocateFails ==
  /\ DOMAIN roles # {}
  /\ \/ \E s \in allocationCandidates : s \notin DOMAIN slaves
     \/ \E s \in maintainedCandidates :
          \E f \in holdersOn(s) : f \notin DOMAIN frameworks

\* deallocate() without the test of `offersOutstanding`.
newInverseOffersRepeated ==
  {<<f, s>> \in FrameworkIds \X maintainedCandidates :
     /\ f \in holdersOn(s)
     /\ frameworks[f].active
     /\ ~isInverseOfferFiltered(f, s)}

\* The (framework, agent) pairs deallocate() sends an inverse offer for.
newInverseOffers ==
  {<<f, s>> \in FrameworkIds \X maintainedCandidates :
     /\ f \in holdersOn(s)
     /\ frameworks[f].active
     /\ f \notin slaves[s].maintenance[1].offersOutstanding
     /\ ~isInverseOfferFiltered(f, s)}

\* The frameworks deallocate() makes an entry of `offerable` for.
inverseOfferFrameworks ==
  {f \in FrameworkIds : \E s \in maintainedCandidates :
                          f \in holdersOn(s) /\ frameworks[f].active}

\* The end of __allocate(), deallocate() and the end of _allocate(): the
\* offers and inverse offers are passed to the master and the candidates
\* are cleared.
finishAllocation ==
  /\ run.pc = "offer"
  /\ offerCallback' = run.offerable
  /\ IF DOMAIN roles = {}
     THEN /\ run' = IdleRun
          /\ inverseOfferCallback' = EmptyMap
          /\ UNCHANGED <<slaves, inverseOffers>>
     ELSE IF deallocateFails
     THEN /\ run' = [run EXCEPT !.pc = "aborted"]
          /\ UNCHANGED <<slaves, inverseOfferCallback, inverseOffers>>
     ELSE /\ run' = IdleRun
          /\ inverseOfferCallback' =
               [f \in inverseOfferFrameworks |->
                  [s \in {x \in maintainedCandidates :
                            <<f, x>> \in newInverseOffers} |->
                     [resources |-> NoResources,
                      unavailability |->
                        slaves[s].maintenance[1].unavailability]]]
          /\ inverseOffers' = inverseOffers \cup newInverseOffers
          /\ slaves' =
               [s \in DOMAIN slaves |->
                  IF s \in maintainedCandidates
                  THEN [slaves[s] EXCEPT
                          !.maintenance[1].offersOutstanding =
                            @ \cup {f \in FrameworkIds :
                                      <<f, s>> \in newInverseOffers}]
                  ELSE slaves[s]]
  /\ allocationCandidates' =
       IF run'.pc = "idle" THEN {} ELSE allocationCandidates
  /\ allocation' =
       IF run'.pc = "idle" /\ dispatched = 0 THEN "ready" ELSE allocation
  /\ UNCHANGED beforeRun
  /\ untimed
  /\ UNCHANGED maxOps
  /\ UNCHANGED <<options, frameworks, registryVars, quotaGuarantees,
                 reservationScalarQuantities, weights, whitelist, paused,
                 expectedAgentCount, dispatched, timerVars, op, nops,
                 nfilters>>

\* The steps of an allocation run.
allocationRun ==
  \/ stage1Slave
  \/ stage1Role
  \/ stage1Framework
  \/ stage2Slave
  \/ stage2Role
  \/ stage2Framework
  \/ finishAllocation

(***************************************************************************)
(* The allocator after initialize().                                       *)
(***************************************************************************)
DefaultOptions ==
  [allocationInterval |-> 1,
   filterGpuResources |-> FALSE,
   domain |-> None,
   minAllocatableResources |-> Nothing]

\* initialize(): the state after construction.  The loop that calls
\* allocate() every allocationInterval is started: `timed` says whether the
\* time of its timer and of the filters' timers is followed, `operations`
\* how many calls of the master are followed.
initializeBounded(_options, timed, operations) ==
  /\ options = _options
  /\ slaves = EmptyMap
  /\ frameworks = EmptyMap
  /\ roles = EmptyMap
  /\ roleSorter = NewSorter
  /\ quotaRoleSorter = NewSorter
  /\ frameworkSorters = EmptyMap
  /\ quotaGuarantees = EmptyMap
  /\ reservationScalarQuantities = EmptyMap
  /\ weights = [r \in Roles |-> 1]
  /\ whitelist = Nothing
  /\ paused = FALSE
  /\ expectedAgentCount = Nothing
  /\ allocationCandidates = {}
  /\ allocation = None
  /\ dispatched = 0
  /\ resumeTimer = FALSE
  /\ expiryTimers = {}
  /\ expiryDispatches = {}
  /\ run = IdleRun
  /\ offerCallback = EmptyMap
  /\ inverseOfferCallback = EmptyMap
  /\ inverseOffers = {}
  /\ beforeRun = Allocations
  /\ clock = IF timed THEN startLoop(_options) ELSE Untimed
  /\ op = [name |-> "initialize", frameworkId |-> None, slaveId |-> None]
  /\ maxOps = operations
  /\ nops = 0
  /\ nfilters = 0

initializeLoop(_options, timed) == initializeBounded(_options, timed, MaxOps)

initialize(_options) == initializeLoop(_options, FALSE)

\* initialize(), followed for one call of the master more.
initializeLonger(_options) == initializeBounded(_options, FALSE, MaxOps + 1)

(***************************************************************************)
(* The calls of the master, with inputs drawn from small sets.             *)
(***************************************************************************)
slaveInfo(hostname, attributes, domain) ==
  [hostname |-> hostname, attributes |-> attributes, domain |-> domain]

FullAgent == [multiRole |-> TRUE, hierarchicalRole |-> TRUE]

FullFramework ==
  [multiRole |-> TRUE, gpuResources |-> TRUE, regionAware |-> TRUE,
   revocableResources |-> TRUE, sharedResources |-> TRUE]

frameworkInfo(roles_, capabilities) ==
  [roles |-> roles_, capabilities |-> capabilities,
   minAllocatableResources |-> EmptyMap]

\* Resources allocated to one role.
allocatedTo(role, r) == [NoAllocations EXCEPT ![role] = r]

\* What the framework holds on the agent for the role, by the framework
\* sorter of the role.
held(frameworkId, slaveId, role) ==
  IF /\ role \in DOMAIN frameworkSorters
     /\ frameworkId \in frameworkSorters[role].clients
  THEN frameworkSorters[role].alloc[frameworkId][slaveId]
  ELSE NoResources

\* The reservation of one unreserved cpu to the role.
reserveCpu(role) ==
  <<Res({<<CpusU, 1>>}), Res({<<Kind("cpus", role, FALSE), 1>>})>>

\* The dispatched _allocate() is executed: the run is skipped while the
\* allocator is paused and entered otherwise.
_allocate == IF paused THEN skipAllocation ELSE beginAllocation

(***************************************************************************)
(* Agent totals and allocations: one agent, one framework of a quota'ed    *)
(* and a non-quota role.                                                   *)
(***************************************************************************)
TotalsInit == initialize(DefaultOptions)

TotalsAddFramework ==
  addFramework("f1", frameworkInfo({RoleQ, RoleB}, FullFramework), EmptyMap,
               TRUE, {})

TotalsAddSlave ==
  \E used \in {EmptyMap,
               "f1" :> allocatedTo(RoleB, Res({<<CpusU, 1>>}))} :
    addSlave("a1", slaveInfo("h1", {}, None), FullAgent, Nothing,
             Res({<<CpusU, 2>>}), used)

TotalsSetQuota == setQuota(RoleQ, Qty({<<"cpus", 1>>}))

TotalsRecoverResources ==
  \E role \in {RoleQ, RoleB} :
    /\ ~isEmpty(held("f1", "a1", role))
    /\ recoverResources("f1", "a1", role, held("f1", "a1", role), Nothing)

TotalsUpdateAllocation ==
  \E role \in {RoleQ, RoleB} :
    updateAllocation("f1", "a1", role, held("f1", "a1", role),
                     reserveCpu(role))

TotalsUpdateSlave ==
  \E total \in {Res({<<CpusU, 1>>}), Res({<<CpusU, 3>>})} :
    /\ "a1" \in DOMAIN slaves
    /\ updateSlave("a1", slaves["a1"].info, Some(total), Nothing)

TotalsUpdateAvailable == updateAvailable("a1", reserveCpu(RoleB))

TotalsAddResourceProvider ==
  \E used \in {EmptyMap,
               "f1" :> allocatedTo(RoleB, Res({<<MemU, 1>>}))} :
    addResourceProvider("a1", Res({<<MemU, 1>>}), used)

TotalsNext ==
  \/ TotalsAddFramework
  \/ TotalsAddSlave
  \/ TotalsSetQuota
  \/ TotalsRecoverResources
  \/ TotalsUpdateAllocation
  \/ TotalsUpdateSlave
  \/ TotalsUpdateAvailable
  \/ TotalsAddResourceProvider
  \/ periodicAllocate
  \/ _allocate
  \/ allocationRun

SpecTotals == TotalsInit /\ [][TotalsNext]_vars

(***************************************************************************)
(* Quota: two agents, a framework of the quota'ed role q and a framework   *)
(* of role b, which has quota or not.                                      *)
(***************************************************************************)
QuotaInit == initializeLonger(DefaultOptions)

QuotaTotal(slaveId) ==
  IF slaveId = "a1"
  THEN Res({<<CpusU, 2>>, <<MemU, 1>>})
  ELSE Res({<<CpusU, 2>>, <<CpusB, 1>>, <<CpusRev, 1>>, <<PortsU, 1>>})

QuotaAddSlave ==
  \E slaveId \in SlaveIds :
    addSlave(slaveId, slaveInfo(slaveId, {}, None), FullAgent, Nothing,
             QuotaTotal(slaveId), EmptyMap)

QuotaAddFramework ==
  \E frameworkId \in FrameworkIds :
    addFramework(frameworkId,
                 frameworkInfo(IF frameworkId = "f1" THEN {RoleQ} ELSE {RoleB},
                               FullFramework),
                 EmptyMap, TRUE, {})

QuotaSetQuota ==
  \/ \E cpus \in {2, 6} : setQuota(RoleQ, Qty({<<"cpus", cpus>>}))
  \/ setQuota(RoleB, Qty({<<"cpus", 1>>}))

QuotaRecoverResources ==
  \E frameworkId \in FrameworkIds, slaveId \in SlaveIds, role \in {RoleQ, RoleB} :
    /\ ~isEmpty(held(frameworkId, slaveId, role))
    /\ recoverResources(frameworkId, slaveId, role,
                        held(frameworkId, slaveId, role), Nothing)

QuotaNext ==
  \/ QuotaAddSlave
  \/ QuotaAddFramework
  \/ QuotaSetQuota
  \/ QuotaRecoverResources
  \/ periodicAllocate
  \/ _allocate
  \/ allocationRun

SpecQuota == QuotaInit /\ [][QuotaNext]_vars

(***************************************************************************)
(* Agents that come and go: two agents are added, deactivated,             *)
(* reactivated, removed and whitelisted by hostname.                       *)
(***************************************************************************)
WhitelistInit == initialize(DefaultOptions)

WhitelistAddSlave ==
  \E slaveId \in SlaveIds :
    addSlave(slaveId,
             slaveInfo(IF slaveId = "a1" THEN "h1" ELSE "h2", {}, None),
             FullAgent, Nothing, Res({<<CpusU, 2>>}), EmptyMap)

WhitelistAddFramework ==
  addFramework("f1", frameworkInfo({RoleQ, RoleB}, FullFramework), EmptyMap,
               TRUE, {})

WhitelistSetQuota == setQuota(RoleQ, Qty({<<"cpus", 1>>}))

WhitelistRemoveSlave == \E slaveId \in SlaveIds : removeSlave(slaveId)

WhitelistActivateSlave == \E slaveId \in SlaveIds : activateSlave(slaveId)

WhitelistDeactivateSlave == \E slaveId \in SlaveIds : deactivateSlave(slaveId)

WhitelistUpdateWhitelist ==
  \E _whitelist \in {Nothing, Some({"h1"})} : updateWhitelist(_whitelist)

WhitelistNext ==
  \/ WhitelistAddSlave
  \/ WhitelistAddFramework
  \/ WhitelistSetQuota
  \/ WhitelistRemoveSlave
  \/ WhitelistActivateSlave
  \/ WhitelistDeactivateSlave
  \/ WhitelistUpdateWhitelist
  \/ periodicAllocate
  \/ _allocate
  \/ allocationRun

SpecWhitelist == WhitelistInit /\ [][WhitelistNext]_vars

(***************************************************************************)
(* Offer filters: a framework declines what it holds on the one agent,     *)
(* with or without a filter; filters expire, are revived away or are       *)
(* removed with a change of the agent's attributes.                        *)
(***************************************************************************)
FiltersInit == initialize(DefaultOptions)

FiltersAddSlave ==
  addSlave("a1", slaveInfo("h1", {}, None), FullAgent, Nothing,
           Res({<<CpusU, 2>>}), EmptyMap)

FiltersAddFramework ==
  addFramework("f1", frameworkInfo({RoleQ, RoleB}, FullFramework), EmptyMap,
               TRUE, {})

FiltersSetQuota == setQuota(RoleQ, Qty({<<"cpus", 1>>}))

FiltersRecoverResources ==
  \E role \in {RoleQ, RoleB}, filters \in {Nothing, Some(5)} :
    /\ ~isEmpty(held("f1", "a1", role))
    /\ recoverResources("f1", "a1", role, held("f1", "a1", role), filters)

FiltersUpdateSlave ==
  /\ "a1" \in DOMAIN slaves
  /\ \/ updateSlave("a1", slaveInfo("h1", {"rack"}, None), Nothing, Nothing)
     \/ updateSlave("a1", slaves["a1"].info, Some(Res({<<CpusU, 3>>})),
                    Nothing)

FiltersReviveOffers == reviveOffers("f1", {})

FiltersDeactivateFramework == deactivateFramework("f1")

FiltersActivateFramework == activateFramework("f1")

FiltersRemoveSlave == removeSlave("a1")

FiltersExpiry ==
  \E id \in 1..(MaxFilters + 1) :
    \/ timeoutFires(id)
    \/ expire(id)
    \/ _expire(id)

FiltersNext ==
  \/ FiltersAddSlave
  \/ FiltersAddFramework
  \/ FiltersSetQuota
  \/ FiltersRecoverResources
  \/ FiltersUpdateSlave
  \/ FiltersReviveOffers
  \/ FiltersDeactivateFramework
  \/ FiltersActivateFramework
  \/ FiltersRemoveSlave
  \/ FiltersExpiry
  \/ periodicAllocate
  \/ _allocate
  \/ allocationRun

SpecFilters == FiltersInit /\ [][FiltersNext]_vars

(***************************************************************************)
(* Suppressed roles: one framework of a quota'ed and a plain role that     *)
(* suppresses and revives its roles, is deactivated, activated and         *)
(* updated.                                                                *)
(***************************************************************************)
SuppressInit == initialize(DefaultOptions)

SuppressAddSlave ==
  addSlave("a1", slaveInfo("h1", {}, None), FullAgent, Nothing,
           Res({<<CpusU, 2>>}), EmptyMap)

SuppressAddFramework ==
  \E suppressedRoles \in {{}, {RoleB}} :
    addFramework("f1", frameworkInfo({RoleQ, RoleB}, FullFramework), EmptyMap,
                 TRUE, suppressedRoles)

SuppressSetQuota == setQuota(RoleQ, Qty({<<"cpus", 1>>}))

SuppressSuppressOffers ==
  \E roles_ \in {{}, {RoleB}, {RoleQ}} : suppressOffers("f1", roles_)

SuppressReviveOffers ==
  \E roles_ \in {{}, {RoleB}} : reviveOffers("f1", roles_)

SuppressActivateFramework == activateFramework("f1")

SuppressDeactivateFramework == deactivateFramework("f1")

SuppressUpdateFramework ==
  \E roles_ \in {{RoleQ, RoleB}, {RoleB}}, suppressedRoles \in {{}, {RoleB}} :
    updateFramework("f1", frameworkInfo(roles_, FullFramework),
                    suppressedRoles)

SuppressRecoverResources ==
  \E role \in {RoleQ, RoleB} :
    /\ ~isEmpty(held("f1", "a1", role))
    /\ recoverResources("f1", "a1", role, held("f1", "a1", role), Nothing)

SuppressNext ==
  \/ SuppressAddSlave
  \/ SuppressAddFramework
  \/ SuppressSetQuota
  \/ SuppressSuppressOffers
  \/ SuppressReviveOffers
  \/ SuppressActivateFramework
  \/ SuppressDeactivateFramework
  \/ SuppressUpdateFramework
  \/ SuppressRecoverResources
  \/ periodicAllocate
  \/ _allocate
  \/ allocationRun

SpecSuppress == SuppressInit /\ [][SuppressNext]_vars

(***************************************************************************)
(* Capabilities: the master is in region r1 and may filter GPU resources;  *)
(* the agent and the framework come with or without each capability.       *)
(***************************************************************************)
CapabilitiesInit ==
  \E filterGpuResources \in BOOLEAN :
    initialize([DefaultOptions EXCEPT
                  !.filterGpuResources = filterGpuResources,
                  !.domain = "r1"])

AgentCapabilities ==
  {FullAgent,
   [FullAgent EXCEPT !.multiRole = FALSE],
   [FullAgent EXCEPT !.hierarchicalRole = FALSE]}

FrameworkCapabilities ==
  {FullFramework,
   [FullFramework EXCEPT !.gpuResources = FALSE],
   [FullFramework EXCEPT !.regionAware = FALSE]}

CapabilitiesAddSlave ==
  \E capabilities \in AgentCapabilities, domain \in {None, "r2"},
     total \in {Res({<<CpusU, 2>>}), Res({<<CpusU, 2>>, <<GpusU, 1>>})} :
    addSlave("a1", slaveInfo("h1", {}, domain), capabilities, Nothing, total,
             EmptyMap)

\* A framework without MULTI_ROLE has one role.
CapabilitiesAddFramework ==
  \/ \E capabilities \in FrameworkCapabilities :
       addFramework("f1", frameworkInfo({RoleQ, RoleBC}, capabilities),
                    EmptyMap, TRUE, {})
  \/ addFramework("f1",
                  frameworkInfo({RoleQ},
                                [FullFramework EXCEPT !.multiRole = FALSE]),
                  EmptyMap, TRUE, {})

CapabilitiesSetQuota == setQuota(RoleQ, Qty({<<"cpus", 1>>}))

CapabilitiesUpdateSlave ==
  /\ "a1" \in DOMAIN slaves
  /\ \E capabilities \in AgentCapabilities :
       updateSlave("a1", slaves["a1"].info, Nothing, Some(capabilities))

CapabilitiesNext ==
  \/ CapabilitiesAddSlave
  \/ CapabilitiesAddFramework
  \/ CapabilitiesSetQuota
  \/ CapabilitiesUpdateSlave
  \/ periodicAllocate
  \/ _allocate
  \/ allocationRun

SpecCapabilities == CapabilitiesInit /\ [][CapabilitiesNext]_vars

(***************************************************************************)
(* Order of allocation: two frameworks share the role b, one of them has   *)
(* the quota'ed role as well; two agents of different sizes.               *)
(***************************************************************************)
SorterInit == initializeLonger(DefaultOptions)

SorterAddSlave ==
  \/ addSlave("a1", slaveInfo("h1", {}, None), FullAgent, Nothing,
              Res({<<CpusU, 3>>}), EmptyMap)
  \/ addSlave("a2", slaveInfo("h2", {}, None), FullAgent, Nothing,
              Res({<<CpusU, 1>>}), EmptyMap)

SorterAddFramework ==
  \/ addFramework("f1", frameworkInfo({RoleQ, RoleB}, FullFramework),
                  EmptyMap, TRUE, {})
  \/ addFramework("f2", frameworkInfo({RoleB}, FullFramework), EmptyMap,
                  TRUE, {})

SorterSetQuota == setQuota(RoleQ, Qty({<<"cpus", 1>>}))

SorterUpdateWeights == updateWeights(RoleQ, 2)

SorterRecoverResources ==
  \E frameworkId \in FrameworkIds, slaveId \in SlaveIds :
    /\ ~isEmpty(held(frameworkId, slaveId, RoleB))
    /\ recoverResources(frameworkId, slaveId, RoleB,
                        held(frameworkId, slaveId, RoleB), Nothing)

SorterNext ==
  \/ SorterAddSlave
  \/ SorterAddFramework
  \/ SorterSetQuota
  \/ SorterUpdateWeights
  \/ SorterRecoverResources
  \/ periodicAllocate
  \/ _allocate
  \/ allocationRun

SpecSorter == SorterInit /\ [][SorterNext]_vars

(***************************************************************************)
(* Dispatch of runs: requests for allocation that come one after another.  *)
(***************************************************************************)
DispatchInit == initialize(DefaultOptions)

DispatchAddSlave ==
  \E slaveId \in SlaveIds :
    addSlave(slaveId, slaveInfo("h1", {}, None), FullAgent, Nothing,
             Res({<<CpusU, 2>>}), EmptyMap)

DispatchAddFramework ==
  addFramework("f1", frameworkInfo({RoleQ, RoleB}, FullFramework), EmptyMap,
               TRUE, {})

DispatchSetQuota == setQuota(RoleQ, Qty({<<"cpus", 1>>}))

DispatchReviveOffers == reviveOffers("f1", {})

DispatchNext ==
  \/ DispatchAddSlave
  \/ DispatchAddFramework
  \/ DispatchSetQuota
  \/ DispatchReviveOffers
  \/ periodicAllocate
  \/ _allocate
  \/ allocationRun

SpecDispatch == DispatchInit /\ [][DispatchNext]_vars

(***************************************************************************)
(* Recovery: recover() before the agents and the framework come, the       *)
(* hold-off ended by the count of agents or by the timer.                  *)
(***************************************************************************)
RecoveryInit == initialize(DefaultOptions)

RecoveryRecover ==
  \E _expectedAgentCount \in 0..3,
     quotas \in {EmptyMap, put(EmptyMap, RoleQ, Qty({<<"cpus", 1>>}))} :
    recover(_expectedAgentCount, quotas)

RecoveryAddSlave ==
  \E slaveId \in SlaveIds :
    addSlave(slaveId, slaveInfo("h1", {}, None), FullAgent, Nothing,
             Res({<<CpusU, 2>>}), EmptyMap)

RecoveryRemoveSlave == \E slaveId \in SlaveIds : removeSlave(slaveId)

RecoveryAddFramework ==
  addFramework("f1", frameworkInfo({RoleQ, RoleB}, FullFramework), EmptyMap,
               TRUE, {})

RecoveryNext ==
  \/ RecoveryRecover
  \/ RecoveryAddSlave
  \/ RecoveryRemoveSlave
  \/ RecoveryAddFramework
  \/ resume
  \/ periodicAllocate
  \/ _allocate
  \/ allocationRun

SpecRecovery == RecoveryInit /\ [][RecoveryNext]_vars

\* A dispatched _allocate waits in the queue of the process, or a run is
\* under way: `_allocate \/ allocationRun` is enabled.
RunDue == (Idle /\ dispatched > 0) \/ run.pc \notin {"idle", "aborted"}

\* A step of `_allocate \/ allocationRun`.
RunAdvances == dispatched' < dispatched \/ (run.pc # "idle" /\ run' # run)

\* WF_vars(_allocate \/ allocationRun), with ENABLED and the action written
\* out: the process runs what is dispatched to it and a run goes on to
\* its end.
RunFairness == []<>(~RunDue) \/ []<><<RunAdvances>>_vars

\* The timer of recover() fires and the periodic loop of initialize() goes
\* on.
RecoveryFairness ==
  /\ RunFairness
  /\ WF_vars(resume)
  /\ WF_vars(periodicAllocate)

SpecRecoveryLive == SpecRecovery /\ RecoveryFairness

(***************************************************************************)
(* Refusal timeouts: one agent, one framework that declines what it holds  *)
(* with every kind of refuse_seconds, under two allocation intervals.      *)
(***************************************************************************)
AllocationIntervals == {1, 7}

RefuseSeconds == {-1, 0, 3, 5, Days365, Days365 + 1}

TimeoutInit ==
  \E interval \in AllocationIntervals :
    initialize([DefaultOptions EXCEPT !.allocationInterval = interval])

TimeoutRecoverResources ==
  \E role \in {RoleQ, RoleB}, refuse_seconds \in RefuseSeconds :
    /\ ~isEmpty(held("f1", "a1", role))
    /\ recoverResources("f1", "a1", role, held("f1", "a1", role),
                        Some(refuse_seconds))

TimeoutNext ==
  \/ FiltersAddSlave
  \/ FiltersAddFramework
  \/ FiltersSetQuota
  \/ TimeoutRecoverResources
  \/ FiltersExpiry
  \/ periodicAllocate
  \/ _allocate
  \/ allocationRun

SpecTimeout == TimeoutInit /\ [][TimeoutNext]_vars

(***************************************************************************)
(* Filter expiry against the operations that clear filters: one agent      *)
(* under maintenance, one framework of two roles that refuses what it      *)
(* holds and the inverse offers of the agent.                              *)
(***************************************************************************)
ExpiryInit == initialize(DefaultOptions)

ExpiryAddFramework ==
  addFramework("f1", frameworkInfo({RoleQ, RoleB}, FullFramework), EmptyMap,
               TRUE, {})

\* The agent registers with nothing in use, or with one cpu in use by f1 in
\* each of its roles.
ExpiryAddSlave ==
  \E used \in {EmptyMap,
               "f1" :> [NoAllocations EXCEPT
                          ![RoleQ] = Res({<<CpusU, 1>>}),
                          ![RoleB] = Res({<<CpusU, 1>>})]} :
    /\ used # EmptyMap => "f1" \in DOMAIN frameworks
    /\ addSlave("a1", slaveInfo("h1", {}, None), FullAgent, Some("u1"),
                Res({<<CpusU, 2>>}), used)

ExpiryRecoverResources ==
  \E role \in {RoleQ, RoleB} :
    /\ ~isEmpty(held("f1", "a1", role))
    /\ recoverResources("f1", "a1", role, held("f1", "a1", role), Some(5))

ExpiryUpdateInverseOffer ==
  \E status \in {Nothing, Some("DECLINE")} :
    updateInverseOffer("a1", "f1", status, Some(5))

ExpiryReviveOffers ==
  \E roles_ \in {{}, {RoleQ}} : reviveOffers("f1", roles_)

ExpiryUpdateFramework ==
  updateFramework("f1", frameworkInfo({RoleB}, FullFramework), {})

ExpiryRemoveFramework == removeFramework("f1")

ExpiryFires ==
  \E id \in 1..(MaxFilters + 1) :
    \/ timeoutFires(id)
    \/ expire(id)
    \/ _expire(id)
    \/ expireInverseOffer(id)

ExpiryNext ==
  \/ ExpiryAddFramework
  \/ ExpiryAddSlave
  \/ FiltersSetQuota
  \/ ExpiryRecoverResources
  \/ ExpiryUpdateInverseOffer
  \/ ExpiryReviveOffers
  \/ FiltersUpdateSlave
  \/ FiltersRemoveSlave
  \/ ExpiryUpdateFramework
  \/ FiltersDeactivateFramework
  \/ ExpiryRemoveFramework
  \/ ExpiryFires
  \/ periodicAllocate
  \/ _allocate
  \/ allocationRun

SpecExpiry == ExpiryInit /\ [][ExpiryNext]_vars

(***************************************************************************)
(* Offers after the end of a filter: framework f1 of role b refuses what   *)
(* it holds, framework f2 of roles q and b competes for the agent, and     *)
(* role q may have a guarantee.                                            *)
(***************************************************************************)
AgainInit == initialize(DefaultOptions)

AgainAddFramework ==
  \E frameworkId \in {"f1", "f2"} :
    addFramework(frameworkId,
                 frameworkInfo(IF frameworkId = "f1" THEN {RoleB}
                               ELSE {RoleQ, RoleB},
                               FullFramework),
                 EmptyMap, TRUE, {})

\* f1 declines all or one cpu of what it holds with a filter, f2 returns
\* what it holds without one.
AgainRecoverResources ==
  \/ \E resources \in {held("f1", "a1", RoleB), Res({<<CpusU, 1>>})} :
       /\ ~isEmpty(resources)
       /\ contains(held("f1", "a1", RoleB), resources)
       /\ recoverResources("f1", "a1", RoleB, resources, Some(5))
  \/ \E role \in {RoleQ, RoleB} :
       /\ ~isEmpty(held("f2", "a1", role))
       /\ recoverResources("f2", "a1", role, held("f2", "a1", role), Nothing)

AgainNext ==
  \/ FiltersAddSlave
  \/ AgainAddFramework
  \/ FiltersSetQuota
  \/ AgainRecoverResources
  \/ FiltersReviveOffers
  \/ FiltersExpiry
  \/ periodicAllocate
  \/ _allocate
  \/ allocationRun

SpecAgain == AgainInit /\ [][AgainNext]_vars

\* Expiry goes on: the timeout of a filter fires after its finite duration,
\* and the process handles every expire() and _expire() in its queue, however
\* many allocation runs come in between.
FilterFairness ==
  \A id \in 1..MaxFilters :
    /\ SF_vars(timeoutFires(id))
    /\ SF_vars(expire(id))
    /\ SF_vars(_expire(id))

SpecAgainLive == SpecAgain /\ RunFairness /\ FilterFairness

(***************************************************************************)
(* Revival: a framework of two roles, suppressed or not, with filters on   *)
(* offers of both roles and on inverse offers.                             *)
(***************************************************************************)
ReviveInit == initializeLonger(DefaultOptions)

ReviveAddFramework ==
  \E suppressedRoles \in {{}, {RoleQ}, {RoleQ, RoleB}} :
    addFramework("f1", frameworkInfo({RoleQ, RoleB}, FullFramework), EmptyMap,
                 TRUE, suppressedRoles)

ReviveReviveOffers ==
  \E roles_ \in {{}, {RoleQ}, {RoleB}} : reviveOffers("f1", roles_)

ReviveNext ==
  \/ ReviveAddFramework
  \/ ExpiryAddSlave
  \/ FiltersSetQuota
  \/ ExpiryRecoverResources
  \/ ExpiryUpdateInverseOffer
  \/ ReviveReviveOffers
  \/ periodicAllocate
  \/ _allocate
  \/ allocationRun

SpecRevive == ReviveInit /\ [][ReviveNext]_vars

(***************************************************************************)
(* Maintenance: one agent that may be scheduled for maintenance, one       *)
(* framework of two roles that may hold resources of the agent under both  *)
(* roles and answers, or lets time out, the inverse offers it receives.    *)
(***************************************************************************)
MaintenanceInit == initialize(DefaultOptions)

MaintenanceAddFramework ==
  addFramework("f1", frameworkInfo({RoleQ, RoleB}, FullFramework), EmptyMap,
               TRUE, {})

\* The agent registers with or without a maintenance schedule, with nothing
\* in use or with one cpu in use by f1 in each of its roles.
MaintenanceAddSlave ==
  \E unavailability \in {Nothing, Some("u1")},
     used \in {EmptyMap,
               "f1" :> [NoAllocations EXCEPT
                          ![RoleQ] = Res({<<CpusU, 1>>}),
                          ![RoleB] = Res({<<CpusU, 1>>})]} :
    /\ used # EmptyMap => "f1" \in DOMAIN frameworks
    /\ addSlave("a1", slaveInfo("h1", {}, None), FullAgent, unavailability,
                Res({<<CpusU, 2>>}), used)

\* The schedule of the agent is replaced or cancelled.
MaintenanceUpdateUnavailability ==
  \E unavailability \in {Nothing, Some("u2")} :
    updateUnavailability("a1", unavailability)

\* The framework answers the inverse offer, or the master rescinds it or lets
\* it time out (no status).
MaintenanceUpdateInverseOffer ==
  \E status \in {Nothing, Some("ACCEPT"), Some("DECLINE")},
     filters \in {Nothing, Some(5)} :
    updateInverseOffer("a1", "f1", status, filters)

MaintenanceRecoverResources ==
  \E role \in {RoleQ, RoleB} :
    /\ ~isEmpty(held("f1", "a1", role))
    /\ recoverResources("f1", "a1", role, held("f1", "a1", role), Nothing)

MaintenanceFires ==
  \E id \in 1..(MaxFilters + 1) :
    \/ timeoutFires(id)
    \/ expireInverseOffer(id)

MaintenanceNext ==
  \/ MaintenanceAddFramework
  \/ MaintenanceAddSlave
  \/ FiltersSetQuota
  \/ MaintenanceUpdateUnavailability
  \/ MaintenanceUpdateInverseOffer
  \/ MaintenanceRecoverResources
  \/ FiltersDeactivateFramework
  \/ FiltersActivateFramework
  \/ FiltersRemoveSlave
  \/ MaintenanceFires
  \/ periodicAllocate
  \/ _allocate
  \/ allocationRun

SpecMaintenance == MaintenanceInit /\ [][MaintenanceNext]_vars

(***************************************************************************)
(* Allocation and recovery: two frameworks, one of them in a role that may *)
(* have a guarantee, an agent that may register with resources in use, and *)
(* frameworks that return exactly what a run has offered them.             *)
(***************************************************************************)
RoundTripInit == initializeLonger(DefaultOptions)

RoundTripAddFramework ==
  \E frameworkId \in {"f1", "f2"} :
    addFramework(frameworkId,
                 frameworkInfo(IF frameworkId = "f1" THEN {RoleQ, RoleB}
                               ELSE {RoleB},
                               FullFramework),
                 EmptyMap, TRUE, {})

RoundTripAddSlave ==
  \E used \in {EmptyMap,
               "f1" :> [NoAllocations EXCEPT
                          ![RoleB] = Res({<<CpusU, 1>>})]} :
    /\ used # EmptyMap => "f1" \in DOMAIN frameworks
    /\ addSlave("a1", slaveInfo("h1", {}, None), FullAgent, Nothing,
                Res({<<CpusU, 3>>}), used)

\* A framework returns, without filters, the resources of one offer of the
\* last run.
RoundTripRecoverResources ==
  \E key \in DOMAIN offerCallback :
    recoverResources(key[1], key[3], key[2], offerCallback[key], Nothing)

RoundTripNext ==
  \/ RoundTripAddFramework
  \/ RoundTripAddSlave
  \/ FiltersSetQuota
  \/ RoundTripRecoverResources
  \/ periodicAllocate
  \/ _allocate
  \/ allocationRun

SpecRoundTrip == RoundTripInit /\ [][RoundTripNext]_vars

(***************************************************************************)
(* Frameworks that come and go: two frameworks that share role b, active   *)
(* or not, suppressing role b or not, an agent and a guarantee of role q.  *)
(***************************************************************************)
AddRemoveInit == initialize(DefaultOptions)

AddRemoveRoles(frameworkId) ==
  IF frameworkId = "f1" THEN {RoleQ, RoleB} ELSE {RoleB}

AddRemoveAddFramework ==
  \E frameworkId \in {"f1", "f2"}, active \in BOOLEAN,
     suppressedRoles \in {{}, {RoleB}} :
    addFramework(frameworkId,
                 frameworkInfo(AddRemoveRoles(frameworkId), FullFramework),
                 EmptyMap, active, suppressedRoles)

AddRemoveRemoveFramework ==
  \E frameworkId \in {"f1", "f2"} : removeFramework(frameworkId)

AddRemoveNext ==
  \/ AddRemoveAddFramework
  \/ AddRemoveRemoveFramework
  \/ FiltersAddSlave
  \/ FiltersSetQuota
  \/ periodicAllocate
  \/ _allocate
  \/ allocationRun

SpecAddRemove == AddRemoveInit /\ [][AddRemoveNext]_vars

(***************************************************************************)
(* Reservations: two agents whose totals hold reservations of role b and   *)
(* of its descendant b/c, and the operations that change a total.          *)
(***************************************************************************)
ReservationsInit == initialize(DefaultOptions)

ReservationsTotals ==
  {Res({<<CpusU, 2>>}),
   Res({<<CpusU, 1>>, <<CpusB, 1>>}),
   Res({<<CpusB, 1>>, <<CpusBC, 1>>})}

ReservationsAddFramework ==
  addFramework("f1", frameworkInfo({RoleQ, RoleB}, FullFramework), EmptyMap,
               TRUE, {})

ReservationsAddSlave ==
  \E slaveId \in {"a1", "a2"}, total \in ReservationsTotals :
    addSlave(slaveId, slaveInfo("h1", {}, None), FullAgent, Nothing, total,
             EmptyMap)

ReservationsRemoveSlave ==
  \E slaveId \in {"a1", "a2"} : removeSlave(slaveId)

ReservationsUpdateSlave ==
  \E total \in ReservationsTotals :
    /\ "a1" \in DOMAIN slaves
    /\ updateSlave("a1", slaves["a1"].info, Some(total), Nothing)

\* A cpu is reserved to b or to b/c, or a cpu of b is unreserved.
ReservationsOperations ==
  {reserveCpu(RoleB), reserveCpu(RoleBC),
   <<Res({<<CpusB, 1>>}), Res({<<CpusU, 1>>})>>}

ReservationsUpdateAvailable ==
  \E operation \in ReservationsOperations : updateAvailable("a1", operation)

ReservationsUpdateAllocation ==
  \E role \in {RoleQ, RoleB} :
    updateAllocation("f1", "a1", role, held("f1", "a1", role),
                     reserveCpu(role))

ReservationsAddResourceProvider ==
  \E total \in {Res({<<MemU, 1>>}), Res({<<CpusB, 1>>})} :
    addResourceProvider("a1", total, EmptyMap)

ReservationsNext ==
  \/ ReservationsAddFramework
  \/ ReservationsAddSlave
  \/ ReservationsRemoveSlave
  \/ ReservationsUpdateSlave
  \/ ReservationsUpdateAvailable
  \/ ReservationsUpdateAllocation
  \/ ReservationsAddResourceProvider
  \/ FiltersSetQuota
  \/ periodicAllocate
  \/ _allocate
  \/ allocationRun

SpecReservations == ReservationsInit /\ [][ReservationsNext]_vars

(***************************************************************************)
(* Removal of an agent whose resources are in use: the framework returns   *)
(* what it holds, before or after the agent has been removed.              *)
(***************************************************************************)
RemovedInit == initialize(DefaultOptions)

RemovedAddFramework ==
  addFramework("f1", frameworkInfo({RoleQ, RoleB}, FullFramework), EmptyMap,
               TRUE, {})

RemovedAddSlave ==
  \E slaveId \in {"a1", "a2"} :
    /\ Cardinality(DOMAIN slaves) < 2
    /\ addSlave(slaveId, slaveInfo("h1", {}, None), FullAgent, Nothing,
                Res({<<CpusU, 2>>}), EmptyMap)

RemovedRemoveSlave == removeSlave("a1")

\* The framework returns all or one cpu of what it holds on agent a1, with
\* or without filters.
RemovedRecoverResources ==
  \E role \in {RoleQ, RoleB}, filters \in {Nothing, Some(5)} :
  \E resources \in {held("f1", "a1", role), Res({<<CpusU, 1>>})} :
    /\ ~isEmpty(resources)
    /\ contains(held("f1", "a1", role), resources)
    /\ recoverResources("f1", "a1", role, resources, filters)

RemovedRemoveFramework == removeFramework("f1")

RemovedNext ==
  \/ RemovedAddFramework
  \/ RemovedAddSlave
  \/ RemovedRemoveSlave
  \/ RemovedRecoverResources
  \/ RemovedRemoveFramework
  \/ FiltersSetQuota
  \/ FiltersExpiry
  \/ periodicAllocate
  \/ _allocate
  \/ allocationRun

SpecRemoved == RemovedInit /\ [][RemovedNext]_vars

(***************************************************************************)
(* A framework that changes its roles: f1 subscribes to two roles, holds   *)
(* resources under them on one agent, resubscribes with fewer or the same  *)
(* roles and with any set of suppressed roles, and returns what it holds   *)
(* all at once or one cpu at a time.                                       *)
(***************************************************************************)
ResubscribeInit == initializeLonger(DefaultOptions)

ResubscribeAddFramework ==
  \E suppressedRoles \in {{}, {RoleB}} :
    addFramework("f1", frameworkInfo({RoleQ, RoleB}, FullFramework), EmptyMap,
                 TRUE, suppressedRoles)

ResubscribeAddSlave ==
  \E used \in {EmptyMap,
               "f1" :> [NoAllocations EXCEPT
                          ![RoleQ] = Res({<<CpusU, 1>>}),
                          ![RoleB] = Res({<<CpusU, 1>>})]} :
    /\ used # EmptyMap => "f1" \in DOMAIN frameworks
    /\ addSlave("a1", slaveInfo("h1", {}, None), FullAgent, Nothing,
                Res({<<CpusU, 2>>}), used)

ResubscribeUpdateFramework ==
  \E roles_ \in {{RoleQ, RoleB}, {RoleQ}, {RoleB}},
     suppressedRoles \in SUBSET {RoleQ, RoleB} :
    updateFramework("f1", frameworkInfo(roles_, FullFramework),
                    suppressedRoles)

ResubscribeRecoverResources ==
  \E role \in {RoleQ, RoleB}, filters \in {Nothing, Some(5)} :
    \E resources \in {held("f1", "a1", role), Res({<<CpusU, 1>>})} :
      recoverResources("f1", "a1", role, resources, filters)

ResubscribeNext ==
  \/ ResubscribeAddFramework
  \/ ResubscribeAddSlave
  \/ FiltersSetQuota
  \/ ResubscribeUpdateFramework
  \/ ResubscribeRecoverResources
  \/ periodicAllocate
  \/ _allocate
  \/ allocationRun

SpecResubscribe == ResubscribeInit /\ [][ResubscribeNext]_vars

(***************************************************************************)
(* Shared resources: agents with a shared volume reserved to a quota'ed    *)
(* role, two frameworks of that role or of its sub-role, which has no      *)
(* quota, with or without the capability to receive shared resources, and  *)
(* offers that are returned.                                               *)
(***************************************************************************)
SharedInit == initialize(DefaultOptions)

SharedAddFramework ==
  \E frameworkId \in FrameworkIds, role \in {RoleB, RoleBC},
     capabilities \in {FullFramework,
                       [FullFramework EXCEPT !.sharedResources = FALSE]} :
    addFramework(frameworkId, frameworkInfo({role}, capabilities), EmptyMap,
                 TRUE, {})

SharedSetQuota == setQuota(RoleB, Qty({<<"cpus", 1>>}))

\* An agent registers with two cpus and the volume; on a1 the volume may be
\* in use by f1 already.
SharedAddSlave ==
  \E slaveId \in SlaveIds,
     used \in {EmptyMap,
               "f1" :> allocatedTo(RoleB, Res({<<DiskBShared, 1>>}))} :
    /\ used # EmptyMap =>
         /\ slaveId = "a1"
         /\ "f1" \in DOMAIN frameworks
         /\ RoleB \in frameworks["f1"].roles
    /\ addSlave(slaveId, slaveInfo("h1", {}, None), FullAgent, Nothing,
                Res({<<CpusU, 2>>, <<DiskBShared, 1>>}), used)

\* A framework returns the resources of one offer of the last run.
SharedRecoverResources ==
  \E key \in DOMAIN offerCallback :
    recoverResources(key[1], key[3], key[2], offerCallback[key], Nothing)

SharedNext ==
  \/ SharedAddFramework
  \/ SharedAddSlave
  \/ SharedSetQuota
  \/ SharedRecoverResources
  \/ _allocate
  \/ allocationRun

SpecShared == SharedInit /\ [][SharedNext]_vars

(***************************************************************************)
(* Consumed quota: quota on the top-level roles q and b, a framework of q  *)
(* and a framework of b or of its sub-role b/c, agents with unreserved     *)
(* resources and reservations of b and b/c, part of them in use when the   *)
(* agent registers.                                                        *)
(***************************************************************************)
ConsumedInit == initialize(DefaultOptions)

ConsumedTotal(slaveId) ==
  IF slaveId = "a1"
  THEN Res({<<CpusU, 2>>, <<CpusB, 1>>, <<MemU, 1>>})
  ELSE Res({<<CpusU, 1>>, <<CpusBC, 1>>, <<CpusRev, 1>>})

ConsumedAddFramework ==
  \/ addFramework("f1", frameworkInfo({RoleQ}, FullFramework), EmptyMap,
                  TRUE, {})
  \/ \E role \in {RoleB, RoleBC} :
       addFramework("f2", frameworkInfo({role}, FullFramework), EmptyMap,
                    TRUE, {})

\* An agent registers with nothing in use or with one unreserved cpu in use
\* by the framework f2 in its role.
ConsumedAddSlave ==
  \E slaveId \in SlaveIds, inUse \in BOOLEAN :
    /\ inUse => "f2" \in DOMAIN frameworks
    /\ addSlave(slaveId, slaveInfo(slaveId, {}, None), FullAgent, Nothing,
                ConsumedTotal(slaveId),
                IF inUse
                THEN "f2" :> allocatedTo(
                               CHOOSE role \in frameworks["f2"].roles : TRUE,
                               Res({<<CpusU, 1>>}))
                ELSE EmptyMap)

ConsumedSetQuota ==
  \/ \E cpus \in {1, 2} : setQuota(RoleQ, Qty({<<"cpus", cpus>>}))
  \/ \E cpus \in {1, 3} : setQuota(RoleB, Qty({<<"cpus", cpus>>}))

ConsumedRecoverResources ==
  \E key \in DOMAIN offerCallback :
    recoverResources(key[1], key[3], key[2], offerCallback[key], Nothing)

ConsumedNext ==
  \/ ConsumedAddFramework
  \/ ConsumedAddSlave
  \/ ConsumedSetQuota
  \/ ConsumedRecoverResources
  \/ periodicAllocate
  \/ _allocate
  \/ allocationRun

SpecConsumed == ConsumedInit /\ [][ConsumedNext]_vars

(***************************************************************************)
(* Headroom: agents that report resources in use by a framework that may   *)
(* not have been added yet, a framework and an agent that are removed      *)
(* before the resources offered to or on them are returned.                *)
(***************************************************************************)
HeadroomInit == initialize(DefaultOptions)

HeadroomAddFramework ==
  addFramework("f1", frameworkInfo({RoleQ, RoleB}, FullFramework), EmptyMap,
               TRUE, {})

HeadroomAddSlave ==
  \E slaveId \in SlaveIds,
     used \in {EmptyMap, "f1" :> allocatedTo(RoleB, Res({<<CpusU, 1>>}))} :
    addSlave(slaveId, slaveInfo("h1", {}, None), FullAgent, Nothing,
             Res({<<CpusU, 2>>, <<CpusB, 1>>, <<CpusRev, 1>>}), used)

HeadroomRemoveSlave == removeSlave("a1")

HeadroomRemoveFramework == removeFramework("f1")

\* The resources of one offer of the last run are returned.
HeadroomRecoverResources ==
  \E key \in DOMAIN offerCallback :
    recoverResources(key[1], key[3], key[2], offerCallback[key], Nothing)

HeadroomNext ==
  \/ HeadroomAddFramework
  \/ HeadroomAddSlave
  \/ HeadroomRemoveSlave
  \/ HeadroomRemoveFramework
  \/ HeadroomRecoverResources
  \/ FiltersSetQuota
  \/ periodicAllocate
  \/ _allocate
  \/ allocationRun

SpecHeadroom == HeadroomInit /\ [][HeadroomNext]_vars

(***************************************************************************)
(* Time: the timers of the periodic loop and of the offer filters fire in  *)
(* the order of their deadlines (in the order of their creation when the   *)
(* deadlines are equal), and the process runs what the timers and itself   *)
(* dispatch to it in the order of the dispatches.  One agent, one          *)
(* framework that declines what it holds with a filter, with or without    *)
(* a recovery hold-off.                                                    *)
(***************************************************************************)
MaxTime == 3

loopTimer(c) ==
  [key |-> LoopTimer, deadline |-> c.now + options.allocationInterval]

\* The loop waits for allocationInterval again.
rearmed(c) ==
  [c EXCEPT !.loop = "armed", !.timers = Append(@, loopTimer(c))]

\* The loop goes on once the future allocate() returned is ready.
loopContinues(c) == IF c.loop = "waiting" THEN rearmed(c) ELSE c

\* The timer that fires next: none before its deadline; of those due the
\* one with the earliest deadline, the one created first among equals.
firesNext(i) ==
  /\ i \in 1..Len(clock.timers)
  /\ clock.timers[i].deadline <= clock.now
  /\ \A j \in 1..Len(clock.timers) :
       \/ clock.timers[j].deadline > clock.timers[i].deadline
       \/ clock.timers[j].deadline = clock.timers[i].deadline /\ j >= i

withoutTimer(timers, key) == SelectSeq(timers, LAMBDA t : t.key # key)

dispatch(call, id) == [call |-> call, id |-> id]

\* The process takes the dispatch at the head of its queue.
isNext(call, id) ==
  /\ clock.timed
  /\ clock.queue # <<>>
  /\ Head(clock.queue) = dispatch(call, id)

installedFilters ==
  UNION {{x.id : x \in frameworks[f].offerFilters} : f \in DOMAIN frameworks}

\* The clock after a call of the master: the timer of a filter the call
\* installed is created, the timers of the filters it destroyed are
\* cancelled, the _allocate() it dispatched joins the queue.
clockAfterCall ==
  LET created == expiryTimers' \ expiryTimers
      kept == SelectSeq(clock.timers,
                        LAMBDA t : t.key = LoopTimer \/ t.key \in expiryTimers')
      timerOf(id) ==
        LET x == CHOOSE x \in
                   UNION {frameworks'[f].offerFilters : f \in DOMAIN frameworks'} :
                   x.id = id
        IN  [key |-> id, deadline |-> clock.now + x.timeout]
  IN  [clock EXCEPT
         !.timers = IF created = {} THEN kept
                    ELSE Append(kept, timerOf(CHOOSE id \in created : TRUE)),
         !.queue = IF dispatched' > dispatched
                   THEN Append(@, dispatch("_allocate", 0)) ELSE @,
         !.whilePaused = IF paused THEN @ \cup created ELSE @]

timedCall == clock.timed /\ clock' = clockAfterCall

\* Time passes while no timer is due.
tick ==
  /\ internalCall("tick", None, None)
  /\ clock.timed
  /\ clock.now < MaxTime
  /\ \A i \in 1..Len(clock.timers) : clock.timers[i].deadline > clock.now
  /\ clock' = [clock EXCEPT !.now = @ + 1]
  /\ UNCHANGED <<slaves, frameworks, registryVars, quotaGuarantees,
                 reservationScalarQuantities, weights, whitelist, paused,
                 expectedAgentCount, dispatchVars, timerVars, callbackVars,
                 nfilters>>

\* after(allocationInterval) of the loop is ready: allocate() is dispatched.
loopFires ==
  /\ internalCall("after", None, None)
  /\ clock.timed
  /\ \E i \in 1..Len(clock.timers) :
       /\ firesNext(i)
       /\ clock.timers[i].key = LoopTimer
  /\ clock' = [clock EXCEPT !.loop = "fired",
                            !.timers = withoutTimer(@, LoopTimer),
                            !.queue = Append(@, dispatch("allocate", 0))]
  /\ UNCHANGED <<slaves, frameworks, registryVars, quotaGuarantees,
                 reservationScalarQuantities, weights, whitelist, paused,
                 expectedAgentCount, dispatchVars, timerVars, callbackVars,
                 nfilters>>

\* The allocate() of the loop runs: while paused its future is ready at
\* once, otherwise the loop waits for the run.
loopAllocates ==
  /\ isNext("allocate", 0)
  /\ periodicAllocate
  /\ clock' =
       LET c == [clockAfterCall EXCEPT !.queue = Tail(@)]
       IN  IF paused THEN rearmed(c) ELSE [c EXCEPT !.loop = "waiting"]

\* The dispatched _allocate() runs: a run the loop waits for finds the
\* installed filters; a skipped run makes the future ready.
timed_allocate ==
  /\ isNext("_allocate", 0)
  /\ _allocate
  /\ clock' =
       LET c == [clock EXCEPT !.queue = Tail(@)]
       IN  IF paused THEN loopContinues(c)
           ELSE IF c.loop = "waiting"
                THEN [c EXCEPT !.shielded = @ \cup installedFilters]
                ELSE c

\* A step of the run; with its last step the future is ready.
timedRun ==
  /\ clock.timed
  /\ allocationRun
  /\ clock' = IF run'.pc = "idle" THEN loopContinues(clock) ELSE clock

timedTimeoutFires(id) ==
  /\ clock.timed
  /\ \E i \in 1..Len(clock.timers) :
       /\ firesNext(i)
       /\ clock.timers[i].key = id
  /\ timeoutFires(id)
  /\ clock' = [clock EXCEPT !.timers = withoutTimer(@, id),
                            !.queue = Append(@, dispatch("expire", id))]

timedExpire(id) ==
  /\ isNext("expire", id)
  /\ expire(id)
  /\ clock' = [clock EXCEPT
                 !.queue = IF expiryCalls(id, "_expire")' # {}
                           THEN Append(Tail(@), dispatch("_expire", id))
                           ELSE Tail(@)]

timed_expire(id) ==
  /\ isNext("_expire", id)
  /\ _expire(id)
  /\ clock' = [clock EXCEPT !.queue = Tail(@)]

ClockIntervals == {1, 2}

ClockInit ==
  \E interval \in ClockIntervals :
    initializeLoop([DefaultOptions EXCEPT !.allocationInterval = interval],
                   TRUE)

ClockRecover ==
  /\ recover(3, put(EmptyMap, RoleQ, Qty({<<"cpus", 1>>})))
  /\ timedCall

ClockSetQuota == FiltersSetQuota /\ timedCall

ClockAddFramework == FiltersAddFramework /\ timedCall

ClockAddSlave ==
  /\ \E used \in {EmptyMap,
                  "f1" :> allocatedTo(RoleB, Res({<<CpusU, 1>>}))} :
       addSlave("a1", slaveInfo("h1", {}, None), FullAgent, Nothing,
                Res({<<CpusU, 2>>}), used)
  /\ timedCall

ClockRecoverResources ==
  /\ \E role \in {RoleQ, RoleB}, refuse_seconds \in {1, 2} :
       /\ ~isEmpty(held("f1", "a1", role))
       /\ recoverResources("f1", "a1", role, held("f1", "a1", role),
                           Some(refuse_seconds))
  /\ timedCall

ClockExpiry ==
  \E id \in 1..MaxFilters :
    \/ timedTimeoutFires(id)
    \/ timedExpire(id)
    \/ timed_expire(id)

ClockNext ==
  \/ ClockRecover
  \/ ClockSetQuota
  \/ ClockAddFramework
  \/ ClockAddSlave
  \/ ClockRecoverResources
  \/ ClockExpiry
  \/ tick
  \/ loopFires
  \/ loopAllocates
  \/ timed_allocate
  \/ timedRun

SpecClock == ClockInit /\ [][ClockNext]_vars

(***************************************************************************)
(* Candidates: two agents come, change and go while runs are requested     *)
(* for them by addSlave, updateSlave, updateUnavailability, reviveOffers   *)
(* and the periodic loop.                                                  *)
(***************************************************************************)
CandidatesInit == initialize(DefaultOptions)

CandidatesAddSlave ==
  \E slaveId \in SlaveIds, unavailability \in {Nothing, Some("u1")} :
    addSlave(slaveId, slaveInfo("h1", {}, None), FullAgent, unavailability,
             Res({<<CpusU, 1>>}), EmptyMap)

CandidatesRemoveSlave == \E slaveId \in SlaveIds : removeSlave(slaveId)

CandidatesUpdateSlave ==
  \E slaveId \in SlaveIds :
    /\ slaveId \in DOMAIN slaves
    /\ updateSlave(slaveId, slaves[slaveId].info,
                   Some(Res({<<CpusU, 2>>})), Nothing)

CandidatesUpdateUnavailability ==
  \E slaveId \in SlaveIds : updateUnavailability(slaveId, Some("u2"))

CandidatesReviveOffers == reviveOffers("f1", {})

CandidatesNext ==
  \/ FiltersAddFramework
  \/ FiltersSetQuota
  \/ CandidatesAddSlave
  \/ CandidatesRemoveSlave
  \/ CandidatesUpdateSlave
  \/ CandidatesUpdateUnavailability
  \/ CandidatesReviveOffers
  \/ periodicAllocate
  \/ _allocate
  \/ allocationRun

SpecCandidates == CandidatesInit /\ [][CandidatesNext]_vars

(***************************************************************************)
(* The registry of roles: two frameworks subscribe, resubscribe and leave, *)
(* agents come with resources in use, also under a role the framework is   *)
(* not subscribed to, offers are returned, quota is set and removed.       *)
(***************************************************************************)
RegistryInit == initialize(DefaultOptions)

RegistryRecover ==
  recover(0, put(EmptyMap, RoleB, Qty({<<"cpus", 1>>})))

RegistryAddFramework ==
  \/ addFramework("f1", frameworkInfo({RoleQ, RoleB}, FullFramework),
                  EmptyMap, TRUE, {})
  \/ \E role \in {RoleB, RoleBC} :
       addFramework("f2", frameworkInfo({role}, FullFramework), EmptyMap,
                    TRUE, {})

RegistryRemoveFramework ==
  \E frameworkId \in FrameworkIds : removeFramework(frameworkId)

RegistryUpdateFramework ==
  \E roles_ \in {{RoleQ, RoleB}, {RoleQ}, {RoleB}} :
    updateFramework("f1", frameworkInfo(roles_, FullFramework), {})

RegistryAddSlave ==
  \E used \in {EmptyMap,
               "f1" :> allocatedTo(RoleB, Res({<<CpusU, 1>>})),
               "f2" :> allocatedTo(RoleBC, Res({<<CpusU, 1>>}))} :
    addSlave("a1", slaveInfo("h1", {}, None), FullAgent, Nothing,
             Res({<<CpusU, 2>>}), used)

RegistryRecoverResources ==
  \E frameworkId \in FrameworkIds, role \in {RoleQ, RoleB, RoleBC} :
    /\ ~isEmpty(held(frameworkId, "a1", role))
    /\ recoverResources(frameworkId, "a1", role,
                        held(frameworkId, "a1", role), Nothing)

RegistrySetQuota ==
  \E role \in {RoleQ, RoleB} : setQuota(role, Qty({<<"cpus", 1>>}))

RegistryRemoveQuota == \E role \in {RoleQ, RoleB} : removeQuota(role)

RegistryNext ==
  \/ RegistryRecover
  \/ RegistryAddFramework
  \/ RegistryRemoveFramework
  \/ RegistryUpdateFramework
  \/ RegistryAddSlave
  \/ RegistryRecoverResources
  \/ RegistrySetQuota
  \/ RegistryRemoveQuota
  \/ periodicAllocate
  \/ _allocate
  \/ allocationRun

SpecRegistry == RegistryInit /\ [][RegistryNext]_vars

(***************************************************************************)
(* Unsubscribed roles: a framework leaves a role while it holds resources  *)
(* of it, and revives offers for roles it names.                           *)
(***************************************************************************)
UnsubscribedInit == initialize(DefaultOptions)

UnsubscribedAddSlave ==
  \E used \in {EmptyMap,
               "f1" :> [NoAllocations EXCEPT
                          ![RoleB] = Res({<<CpusU, 1>>})]} :
    /\ used # EmptyMap => "f1" \in DOMAIN frameworks
    /\ addSlave("a1", slaveInfo("h1", {}, None), FullAgent, Nothing,
                Res({<<CpusU, 2>>}), used)

UnsubscribedUpdateFramework ==
  \E roles_ \in {{RoleQ, RoleB}, {RoleQ}, {RoleB}},
     suppressedRoles \in {{}, {RoleQ}} :
    /\ suppressedRoles \subseteq roles_
    /\ updateFramework("f1", frameworkInfo(roles_, FullFramework),
                       suppressedRoles)

UnsubscribedReviveOffers ==
  \E roles_ \in {{}, {RoleQ}, {RoleB}} : reviveOffers("f1", roles_)

UnsubscribedRecoverResources ==
  \E role \in {RoleQ, RoleB} :
    /\ ~isEmpty(held("f1", "a1", role))
    /\ \E resources \in {held("f1", "a1", role), Res({<<CpusU, 1>>})} :
         recoverResources("f1", "a1", role, resources, Nothing)

UnsubscribedNext ==
  \/ ResubscribeAddFramework
  \/ UnsubscribedAddSlave
  \/ FiltersSetQuota
  \/ UnsubscribedUpdateFramework
  \/ UnsubscribedReviveOffers
  \/ UnsubscribedRecoverResources
  \/ periodicAllocate
  \/ _allocate
  \/ allocationRun

SpecUnsubscribed == UnsubscribedInit /\ [][UnsubscribedNext]_vars

(***************************************************************************)
(* Pause: pause() and resume() called from outside, with and without a     *)
(* recovery.                                                               *)
(***************************************************************************)
PauseInit == initialize(DefaultOptions)

PauseRecover ==
  \E _expectedAgentCount \in {0, 2, 3} :
    recover(_expectedAgentCount, put(EmptyMap, RoleQ, Qty({<<"cpus", 1>>})))

PauseAddSlave ==
  \E slaveId \in SlaveIds :
    addSlave(slaveId, slaveInfo("h1", {}, None), FullAgent, Nothing,
             Res({<<CpusU, 2>>}), EmptyMap)

PauseNext ==
  \/ PauseRecover
  \/ PauseAddSlave
  \/ RecoveryAddFramework
  \/ FiltersSetQuota
  \/ pause
  \/ resumeCalled
  \/ resume
  \/ periodicAllocate
  \/ _allocate
  \/ allocationRun

SpecPause == PauseInit /\ [][PauseNext]_vars

RunEnded == run.pc = "offer"

\* The run covers all registered agents.
CoversAllAgents ==
  {run.slaveIds[i] : i \in 1..Len(run.slaveIds)} = DOMAIN slaves

\* The role has a framework that is active, has not suppressed the role,
\* can receive every agent, has no offer filter and no minimum of
\* allocatable resources.
HasEligibleFramework(role) ==
  /\ options.minAllocatableResources = Nothing
  /\ \E f \in DOMAIN frameworks :
       /\ role \in frameworks[f].roles
       /\ frameworks[f].active
       /\ role \notin frameworks[f].suppressedRoles
       /\ frameworks[f].offerFilters = {}
       /\ role \notin DOMAIN frameworks[f].minAllocatableResources
       /\ \A s \in DOMAIN slaves :
            /\ isCapableOfReceivingAgent(frameworks[f].capabilities, slaves[s])
            /\ ~isFiltered(f, role, s, slaves[s].total)

\* The stage 1 allocations of the run come before its stage 2 allocations.
Stage1BeforeStage2 ==
  \A i, j \in 1..Len(run.allocations) :
    run.allocations[i].stage = 1 /\ run.allocations[j].stage = 2 => i < j

HeadroomKeptOrHeldBack ==
  RunEnded =>
    \/ qContains(run.availableHeadroom, run.requiredHeadroom)
    \/ ~qEmpty(run.heldBackForHeadroom)
    \/ run.heldBackAgentCount > 0

\* C3, amended: at the end of every run in which stage 2 evaluated the
\* headroom for some framework, the available headroom contains the
\* required headroom or a held-back counter is non-zero.
HeadroomKeptOrHeldBackWhenChecked ==
  RunEnded /\ run.headroomChecks > 0 =>
    \/ qContains(run.availableHeadroom, run.requiredHeadroom)
    \/ ~qEmpty(run.heldBackForHeadroom)
    \/ run.heldBackAgentCount > 0

\* A run ends short of headroom with resources held back.
RunHeldBack ==
  /\ RunEnded
  /\ ~qContains(run.availableHeadroom, run.requiredHeadroom)
  /\ ~qEmpty(run.heldBackForHeadroom)
  /\ run.heldBackAgentCount > 0

\* The unreserved non-revocable scalar part of resources.
headroomPart(r) == nonRevocable(unreserved(scalars(r)))

\* The step is an allocation of stage 2.
Stage2Allocates ==
  /\ run.pc = "stage2_framework"
  /\ run'.pc = "stage2_framework"
  /\ Len(run'.allocations) = Len(run.allocations) + 1

\* What is allocatable to the framework stage 2 is about to consider.
stage2Candidate ==
  allocatableTo(
    stripIncapableResources(getAvailable(slaves[currentSlaveId]),
                            frameworks[Head(run.frameworkList)].capabilities),
    currentRole)

\* Allocating the unreserved non-revocable scalars of the candidate would
\* leave the available headroom short of the required headroom.
HeadroomWouldNotSuffice ==
  ~qContains(qMinus(run.availableHeadroom,
                    fromScalarResources(headroomPart(stage2Candidate))),
             run.requiredHeadroom)

\* The guarantees exceed the non-revocable scalars of the cluster.
GuaranteesExceedCapacity ==
  ~qContains(
     SumQuantities([s \in DOMAIN slaves |->
                      fromScalarResources(scalars(nonRevocable(
                        slaves[s].total)))],
                   DOMAIN slaves),
     SumQuantities(quotaGuarantees, DOMAIN quotaGuarantees))

\* No allocation of stage 2 in the run holds unreserved non-revocable
\* scalars.
NoHeadroomOffered ==
  \A i \in 1..Len(run.allocations) :
    run.allocations[i].stage = 2
      => isEmpty(headroomPart(run.allocations[i].resources))

\* The allocation stage 2 makes when it withholds: the candidate without
\* its unreserved non-revocable scalars, which leaves reservations of the
\* role and its ancestors, revocable and non-scalar resources.
WithheldAllocation ==
  LET entry == run'.allocations[Len(run'.allocations)]
  IN  /\ entry.resources = minus(stage2Candidate, headroomPart(stage2Candidate))
      /\ \A k \in Kinds :
           entry.resources[k] > 0 =>
             \/ ~isUnreserved(k) /\ isRoleOrDescendant(entry.role, k.rsv)
             \/ isRevocable(k)
             \/ ~isScalar(k)

\* C4 as stated: stage 2 withholds the whole unreserved non-revocable
\* scalar part when the headroom would not suffice, no allocation of stage
\* 2 reduces the available headroom, and with guarantees beyond the
\* capacity no non-quota role is offered unreserved non-revocable scalars.
Stage2NeverReducesHeadroom ==
  [][/\ Stage2Allocates =>
          /\ HeadroomWouldNotSuffice => WithheldAllocation
          /\ run'.availableHeadroom = run.availableHeadroom
     /\ (run'.pc # "idle" /\ run'.pc # "aborted" /\ GuaranteesExceedCapacity')
          => NoHeadroomOffered']_vars

\* C4, amended: stage 2 withholds the whole unreserved non-revocable scalar
\* part when the headroom would not suffice and then leaves the available
\* headroom as it is; an allocation of stage 2 reduces the available
\* headroom only by unreserved non-revocable scalars it could spare, so it
\* never makes the available headroom stop containing the required
\* headroom; and with guarantees beyond the capacity no non-quota role is
\* offered unreserved non-revocable scalars.
Stage2KeepsHeadroom ==
  [][/\ Stage2Allocates =>
          /\ HeadroomWouldNotSuffice =>
               /\ WithheldAllocation
               /\ run'.availableHeadroom = run.availableHeadroom
          /\ qContains(run.availableHeadroom, run.requiredHeadroom)
               => qContains(run'.availableHeadroom, run'.requiredHeadroom)
     /\ (run'.pc # "idle" /\ run'.pc # "aborted" /\ GuaranteesExceedCapacity')
          => NoHeadroomOffered']_vars

\* With guarantees beyond the capacity, stage 2 has offered role b the
\* reserved and revocable cpus of an agent and no unreserved cpus.
WithheldOfferMade ==
  /\ RunEnded
  /\ GuaranteesExceedCapacity
  /\ run.heldBackAgentCount > 0
  /\ \E i \in 1..Len(run.allocations) :
       /\ run.allocations[i].stage = 2
       /\ run.allocations[i].role = RoleB
       /\ run.allocations[i].resources[CpusB] > 0
       /\ run.allocations[i].resources[CpusRev] > 0
       /\ run.allocations[i].resources[CpusU] = 0

(***************************************************************************)
(* Offers and the agents they are for (C5)                                 *)
(***************************************************************************)
\* The run is in progress or at its end: `offerable` holds its offers.
Running == run.pc \notin {"idle", "aborted"}

\* C5: every agent in an offer of a run is, during the run and when the
\* offers are passed to the offer callback, registered, activated and
\* whitelisted (no whitelist, or its hostname in the whitelist).
OfferedAgentsUsable ==
  Running =>
    \A key \in DOMAIN run.offerable :
      /\ key[3] \in DOMAIN slaves
      /\ slaves[key[3]].activated
      /\ \/ whitelist = Nothing
         \/ slaves[key[3]].info.hostname \in whitelist[1]

\* A run ends with offers while one of its candidates is deactivated and
\* the other candidate's hostname is the only one whitelisted.
OffersSkipUnusableCandidate ==
  /\ RunEnded
  /\ DOMAIN run.offerable # {}
  /\ whitelist # Nothing
  /\ \E s \in allocationCandidates \cap DOMAIN slaves :
       ~slaves[s].activated \/ slaves[s].info.hostname \notin whitelist[1]

(***************************************************************************)
(* Offer filters (C6)                                                      *)
(***************************************************************************)
\* The offer filters the framework has for the role on the agent.
filtersFor(frameworkId, role, slaveId) ==
  IF frameworkId \in DOMAIN frameworks
  THEN {x \in frameworks[frameworkId].offerFilters :
          x.role = role /\ x.slaveId = slaveId}
  ELSE {}

\* C6: while an offer filter of framework f for role r on agent A with
\* resources R is installed, no allocation of a run to f for r on A is
\* contained in R.
NoFilteredOffer ==
  Running =>
    \A i \in 1..Len(run.allocations) :
      LET entry == run.allocations[i]
      IN  \A x \in filtersFor(entry.frameworkId, entry.role, entry.slaveId) :
            ~contains(x.resources, entry.resources)

\* With a filter installed, a run offers the framework for the filter's
\* role and agent a resource set that is larger than the filter's.
LargerSetOffered ==
  /\ RunEnded
  /\ \E i \in 1..Len(run.allocations) :
       LET entry == run.allocations[i]
       IN  \E x \in filtersFor(entry.frameworkId, entry.role, entry.slaveId) :
             /\ contains(entry.resources, x.resources)
             /\ entry.resources # x.resources

(***************************************************************************)
(* Suppressed roles (C7)                                                   *)
(***************************************************************************)
\* C7: no run allocates to a framework for a role that is in the
\* framework's suppressed set, whatever calls (activateFramework among
\* them) came before the run.
NoSuppressedOffer ==
  Running =>
    \A i \in 1..Len(run.allocations) :
      LET entry == run.allocations[i]
      IN  entry.frameworkId \in DOMAIN frameworks
            => entry.role \notin frameworks[entry.frameworkId].suppressedRoles

\* A run ends with the active framework offered its role q, and with what
\* is left of the agent not offered for the suppressed role b.
SuppressedRoleNotOffered ==
  /\ RunEnded
  /\ "f1" \in DOMAIN frameworks
  /\ frameworks["f1"].active
  /\ RoleB \in frameworks["f1"].roles
  /\ RoleB \in frameworks["f1"].suppressedRoles
  /\ \E i \in 1..Len(run.allocations) :
       /\ run.allocations[i].frameworkId = "f1"
       /\ run.allocations[i].role = RoleQ
  /\ "a1" \in DOMAIN slaves
  /\ ~isEmpty(getAvailable(slaves["a1"]))

(***************************************************************************)
(* Capabilities (C8)                                                       *)
(***************************************************************************)
\* The pairs of a framework, a role and an agent that no offer may make.
multiRoleMismatch(framework, slave) ==
  framework.capabilities.multiRole /\ ~slave.capabilities.multiRole

hierarchicalMismatch(role, slave) ==
  Len(role) > 1 /\ ~slave.capabilities.hierarchicalRole

gpuMismatch(framework, slave) ==
  /\ options.filterGpuResources
  /\ ~framework.capabilities.gpuResources
  /\ fromScalarResources(slave.total)["gpus"] > 0

regionMismatch(framework, slave) ==
  /\ ~framework.capabilities.regionAware
  /\ slave.info.domain # None
  /\ slave.info.domain # options.domain

\* C8: no allocation of a run pairs a MULTI_ROLE framework with an agent
\* without MULTI_ROLE, a hierarchical role with an agent without
\* HIERARCHICAL_ROLE, a framework without the GPU capability with an agent
\* that has GPUs while filterGpuResources is set, or a framework that is
\* not region aware with an agent of another region than the master's.
CapableOffers ==
  Running =>
    \A i \in 1..Len(run.allocations) :
      LET entry == run.allocations[i]
          framework == frameworks[entry.frameworkId]
          slave == slaves[entry.slaveId]
      IN  /\ ~multiRoleMismatch(framework, slave)
          /\ ~hierarchicalMismatch(entry.role, slave)
          /\ ~gpuMismatch(framework, slave)
          /\ ~regionMismatch(framework, slave)

\* A run offers the agent for the role q and leaves the rest of the agent
\* unoffered, the framework's other role being hierarchical and the agent
\* without HIERARCHICAL_ROLE.
HierarchicalRoleSkipped ==
  /\ RunEnded
  /\ "f1" \in DOMAIN frameworks
  /\ "a1" \in DOMAIN slaves
  /\ RoleBC \in frameworks["f1"].roles
  /\ hierarchicalMismatch(RoleBC, slaves["a1"])
  /\ \E i \in 1..Len(run.allocations) :
       /\ run.allocations[i].role = RoleQ
       /\ run.allocations[i].slaveId = "a1"
  /\ ~isEmpty(getAvailable(slaves["a1"]))

(***************************************************************************)
(* Order of allocation (C9)                                                *)
(***************************************************************************)
\* The clients of the list come in ascending order of weighted share.
OrderedByShare(list, sorter, weightOf) ==
  \A i, j \in 1..Len(list) :
    i < j => ~fracLess(weightedShare(sorter, list[j], weightOf[list[j]]),
                       weightedShare(sorter, list[i], weightOf[list[i]]))

Range(list) == {list[i] : i \in 1..Len(list)}

\* A step of the run that sorts the roles (the frameworks of a role) anew.
SortsRoles(stage) == run'.pc = stage /\ Len(run'.roleList) > Len(run.roleList)
SortsFrameworks(stage) ==
  run'.pc = stage /\ Len(run'.frameworkList) > Len(run.frameworkList)

\* C9: a run visits, for each agent, the active roles in ascending order
\* of weighted share and the active frameworks of a role in ascending order
\* of share; so a stage 2 allocation to a framework for a role leaves no
\* active framework of the role with a strictly smaller share unvisited.
VisitedInSorterOrder ==
  [][/\ SortsRoles("stage1_role")
          => /\ OrderedByShare(run'.roleList, quotaRoleSorter, weights)
             /\ Range(run'.roleList) = quotaRoleSorter.active
     /\ SortsRoles("stage2_role")
          => /\ OrderedByShare(run'.roleList, roleSorter, weights)
             /\ Range(run'.roleList) = roleSorter.active
     /\ SortsFrameworks("stage1_framework") \/ SortsFrameworks("stage2_framework")
          => LET sorter == frameworkSorters[Head(run'.roleList)]
             IN  /\ OrderedByShare(run'.frameworkList, sorter, unitWeights)
                 /\ Range(run'.frameworkList) = sorter.active
     /\ Stage2Allocates
          => LET sorter == frameworkSorters[currentRole]
                 offered == Head(run.frameworkList)
             IN  \A other \in sorter.active \ {offered} :
                   fracLess(weightedShare(sorter, other, 1),
                            weightedShare(sorter, offered, 1))
                     => other \notin Range(Tail(run.frameworkList))]_vars

\* Two active frameworks of the role b compete for an agent; the one with
\* the strictly smaller share is offered the agent and the other is not.
SmallerShareOffered ==
  /\ RunEnded
  /\ RoleB \in DOMAIN frameworkSorters
  /\ {"f1", "f2"} \subseteq frameworkSorters[RoleB].active
  /\ \E i \in 1..Len(run.allocations) :
       LET entry == run.allocations[i]
           other == CHOOSE f \in {"f1", "f2"} : f # entry.frameworkId
       IN  /\ entry.stage = 2
           /\ entry.role = RoleB
           /\ fracLess(weightedShare(frameworkSorters[RoleB],
                                     entry.frameworkId, 1),
                       weightedShare(frameworkSorters[RoleB], other, 1))
           /\ \A j \in 1..Len(run.allocations) :
                run.allocations[j].slaveId = entry.slaveId
                  => run.allocations[j].frameworkId # other

(***************************************************************************)
(* Dispatch of runs (C10)                                                  *)
(***************************************************************************)
\* The calls of the dispatch specification that end in allocate().
AllocateCallers == {"addSlave", "addFramework", "reviveOffers", "allocate"}

\* C10: at most one run is dispatched and not yet executed; a request for
\* allocation that arrives while a run is pending adds its agents to the
\* candidates and leaves the pending run as it is, dispatching no other.
AtMostOneRunDispatched ==
  [][/\ dispatched' <= 1
     /\ (/\ allocation = "pending"
         /\ Idle /\ Idle'
         /\ ~paused
         /\ op'.name \in AllocateCallers)
          => /\ dispatched' = dispatched
             /\ allocation' = "pending"
             /\ allocationCandidates \subseteq allocationCandidates']_vars

\* The request of a second agent has joined the candidates of the run that
\* the first request dispatched.
RequestsCoalesced ==
  /\ dispatched = 1
  /\ allocation = "pending"
  /\ op.name = "addSlave"
  /\ allocationCandidates = {"a1", "a2"}

(***************************************************************************)
(* Candidates of the runs (C11)                                            *)
(***************************************************************************)
\* A call of the master, as a step.
Calls(name) == op'.name = name /\ nops' = nops + 1

\* The step that ends a run that was not skipped.
RunReturns == run.pc = "offer" /\ run'.pc = "idle"

RequestsAllocation == op'.name \in {"addSlave", "addFramework", "allocate"}

\* C12: a request for allocation that is made while the allocator is
\* paused adds no candidate and dispatches no run; a dispatched run that
\* is executed while the allocator is paused calls neither the offer
\* callback nor the inverse offer callback and changes no agent, no sorter
\* and no candidate.
NoAllocationWhilePaused ==
  [][/\ (Idle /\ Idle' /\ RequestsAllocation /\ paused')
          => UNCHANGED dispatchVars
     /\ (paused /\ dispatched' < dispatched)
          => /\ Idle'
             /\ UNCHANGED <<slaves, frameworks, registryVars,
                            allocationCandidates, callbackVars>>]_vars

\* A dispatched run has been skipped, with an agent registered during the
\* pause that is no candidate.
SkippedWhilePaused ==
  /\ paused
  /\ Idle
  /\ op.name = "_allocate"
  /\ DOMAIN slaves # {}
  /\ allocationCandidates = {}
  /\ allocation = "ready"

(***************************************************************************)
(* recover (C13)                                                           *)
(***************************************************************************)
\* floor(0.8 * n), for a natural number n.
FloorOfFourFifths(n) == CHOOSE k \in 0..n : 5 * k <= 4 * n /\ 4 * n < 5 * (k + 1)

\* C13: recover(n, quotas) pauses the allocator and sets the timer of
\* resume() exactly when quotas is not empty and floor(0.8 * n) >= 1; with
\* no quotas it changes nothing; with quotas and floor(0.8 * n) = 0, which
\* is n = 0 or n = 1, it sets the quotas and does not pause.
RecoverPausesOnThreshold ==
  [][Calls("recover") =>
       LET n == op'.expectedAgentCount
           quotas == op'.quotas
           threshold == FloorOfFourFifths(n)
       IN  /\ ~paused /\ ~resumeTimer
           /\ (paused' /\ resumeTimer')
                <=> (DOMAIN quotas # {} /\ threshold >= 1)
           /\ paused' <=> resumeTimer'
           /\ DOMAIN quotas = {}
                => UNCHANGED <<slaves, frameworks, registryVars,
                               quotaGuarantees, reservationScalarQuantities,
                               weights, whitelist, paused, expectedAgentCount,
                               dispatchVars, timerVars, run, callbackVars>>
           /\ DOMAIN quotas # {}
                => /\ \A role \in DOMAIN quotas :
                        /\ role \in DOMAIN quotaGuarantees'
                        /\ quotaGuarantees'[role] = quotas[role]
                        /\ role \in quotaRoleSorter'.active
                   /\ threshold = 0 <=> n \in {0, 1}]_vars

\* recover(1, quotas) has set the quota and has not paused the allocator.
RecoveredWithoutPause ==
  /\ op.name = "recover"
  /\ op.expectedAgentCount = 1
  /\ DOMAIN op.quotas # {}
  /\ RoleQ \in DOMAIN quotaGuarantees
  /\ ~paused
  /\ ~resumeTimer

(***************************************************************************)
(* The end of the hold-off by the count of agents (C14)                    *)
(***************************************************************************)
\* C14: during the hold-off of recover(), the addSlave that brings the
\* number of agents to the expected count (floor(0.8 * n), as recover()
\* has stored it) resumes the allocator within the call, so that its
\* request for allocation is taken and the run it dispatches is not
\* skipped; an addSlave that leaves the number below leaves the allocator
\* paused.
ResumedByAgentCount ==
  [][/\ (Calls("addSlave") /\ paused /\ expectedAgentCount # Nothing)
          => IF Cardinality(DOMAIN slaves') >= expectedAgentCount[1]
             THEN /\ ~paused'
                  /\ op'.slaveId \in allocationCandidates'
                  /\ allocation' = "pending"
                  /\ dispatched' >= 1
             ELSE /\ paused'
                  /\ UNCHANGED dispatchVars
     /\ allocationCandidates' # {} => ~paused'
     /\ (dispatched' < dispatched /\ allocationCandidates # {})
          => run'.pc # "idle"]_vars

\* The second agent has ended the hold-off before the timer of recover():
\* the allocator is not paused and the agent is a candidate of the
\* dispatched run.
ResumedBySecondAgent ==
  /\ op.name = "addSlave"
  /\ ~paused
  /\ resumeTimer
  /\ expectedAgentCount = Nothing
  /\ Cardinality(DOMAIN slaves) = 2
  /\ op.slaveId \in allocationCandidates
  /\ dispatched = 1

(***************************************************************************)
(* The end of the hold-off by the timer (C15)                              *)
(***************************************************************************)
\* C15: a pause of recover() ends, whether agents are added or not: the
\* resume() that recover() has scheduled clears it.  From then on the
\* allocator stays unpaused, a dispatched run is not skipped, and a run of
\* the periodic loop takes place.
PauseEnds ==
  /\ paused ~> ~paused
  /\ paused ~> (~paused /\ run.pc = "offer")
  /\ [][/\ (~paused /\ paused') => Calls("recover")
        /\ (paused /\ ~paused')
             => op'.name = "resume" \/ Calls("addSlave")
        /\ (~paused /\ dispatched' < dispatched) => run'.pc # "idle"]_vars

\* The timer has ended the hold-off, no agent has ended it, and a run has
\* gone to its end.
RunAfterTimer ==
  /\ RunEnded
  /\ ~paused
  /\ ~resumeTimer
  /\ expectedAgentCount # Nothing
  /\ expectedAgentCount[1] >= 1


(***************************************************************************)
(* C16: the timeout of the filter recoverResources installs                *)
(***************************************************************************)
\* c(s): 365 days above 365 days, the default below zero, else s.
ClampedRefuseSeconds(s) ==
  IF s > Days365 THEN Days365
  ELSE IF s < 0 THEN DefaultRefuseSeconds
  ELSE s

\* The offer filters of a framework in the next state that it does not have
\* in this one.
InstalledFilters(frameworkId) ==
  frameworks'[frameworkId].offerFilters \ frameworks[frameworkId].offerFilters

\* recoverResources of what f1 holds on a1 in `role`, refused for s seconds.
Refuses(role, s) ==
  /\ "f1" \in DOMAIN frameworks
  /\ "a1" \in DOMAIN slaves
  /\ ~isEmpty(held("f1", "a1", role))
  /\ recoverResources("f1", "a1", role, held("f1", "a1", role), Some(s))

InstallsWithTimeout(role, s) ==
  /\ Cardinality(InstalledFilters("f1")) = 1
  /\ \A offerFilter \in InstalledFilters("f1") :
       /\ offerFilter.role = role
       /\ offerFilter.slaveId = "a1"
       /\ offerFilter.timeout =
            max(options.allocationInterval, ClampedRefuseSeconds(s))
       /\ \/ offerFilter.timeout \in 0..Days365
          \/ offerFilter.timeout = options.allocationInterval

\* C16 as stated: recoverResources with refuse_seconds s, for an existing
\* framework and agent, installs an offer filter whose timeout is
\* max(allocationInterval, c(s)), for every s.
AlwaysInstallsFilter ==
  [][\A role \in {RoleQ, RoleB}, s \in RefuseSeconds :
       Refuses(role, s) => InstallsWithTimeout(role, s)]_vars

\* C16 amended: recoverResources with refuse_seconds s, for an existing
\* framework and agent, installs an offer filter whose timeout is
\* max(allocationInterval, c(s)) when c(s) is not zero, a timeout that lies in
\* [0, 365 days] or equals allocationInterval; when c(s) is zero it installs
\* no filter and leaves the framework's filters as they are.
InstallsFilterUnlessZero ==
  [][\A role \in {RoleQ, RoleB}, s \in RefuseSeconds :
       Refuses(role, s) =>
         IF ClampedRefuseSeconds(s) # 0
         THEN InstallsWithTimeout(role, s)
         ELSE /\ frameworks' = frameworks
              /\ expiryTimers' = expiryTimers]_vars

\* A refusal for more than 365 days has installed a filter of 365 days, and
\* a refusal shorter than the allocation interval one of that interval.
ClampedFilterInstalled ==
  /\ op.name = "recoverResources"
  /\ "f1" \in DOMAIN frameworks
  /\ \E offerFilter \in frameworks["f1"].offerFilters :
       \/ offerFilter.timeout = Days365
       \/ /\ offerFilter.timeout = 7
          /\ options.allocationInterval = 7


(***************************************************************************)
(* C17: expiry of a filter that is gone, and of one that is installed      *)
(***************************************************************************)
\* The dispatches in the queue whose handler looks the filter up: _expire()
\* of an offer filter, expire() of an inverse offer filter.
FilterLookups ==
  {d \in expiryDispatches :
     \/ d.call = "_expire"
     \/ d.call = "expire" /\ d.arguments.inverse}

\* The filters installed in `fws`, each with its framework and its kind.
InstalledIn(fws) ==
  UNION {({f} \X {"offer"} \X fws[f].offerFilters)
           \cup ({f} \X {"inverse"} \X fws[f].inverseOfferFilters) :
         f \in DOMAIN fws}

StillInstalled(d) == \E x \in InstalledIn(frameworks) : x[3].id = d.id

\* `fws` without its filters.
WithoutFilters(fws) ==
  [f \in DOMAIN fws |->
     [fws[f] EXCEPT !.offerFilters = {}, !.inverseOfferFilters = {}]]

\* The handler of the dispatch d runs in this step.
Expires(d) ==
  /\ d \in FilterLookups
  /\ expiryDispatches' = expiryDispatches \ {d}

\* C17: an expiry for an offer filter or inverse offer filter that has been
\* removed before (by reviveOffers, a change of the agent's attributes, the
\* removal of the agent, the unsubscription from the role, the deactivation or
\* the removal of the framework) changes no state of the allocator and fails
\* none of its CHECKs, whenever the dispatch runs; an expiry for a filter that
\* is still installed removes that filter and nothing else.
ExpiryOfGoneFilterIsNoOp ==
  /\ [](Idle =>
          \A d \in FilterLookups :
            IF d.arguments.inverse THEN ENABLED expireInverseOffer(d.id)
            ELSE ENABLED _expire(d.id))
  /\ [][\A d \in FilterLookups :
          Expires(d) =>
            /\ UNCHANGED <<slaves, registryVars, quotaGuarantees,
                           reservationScalarQuantities, weights, whitelist,
                           paused, expectedAgentCount, dispatchVars,
                           resumeTimer, expiryTimers, callbackVars, nfilters,
                           options, run>>
            /\ WithoutFilters(frameworks') = WithoutFilters(frameworks)
            /\ IF StillInstalled(d)
               THEN /\ InstalledIn(frameworks') =
                         {x \in InstalledIn(frameworks) : x[3].id # d.id}
                    /\ Cardinality(InstalledIn(frameworks')) + 1 =
                         Cardinality(InstalledIn(frameworks))
               ELSE frameworks' = frameworks]_vars

\* _expire() has run after the framework of its filter was removed.
ExpiredAfterFrameworkRemoved ==
  /\ op.name = "_expire"
  /\ DOMAIN frameworks = {}



(***************************************************************************)
(* C18: a filter is removed in the end, and the framework is offered the   *)
(* agent again                                                             *)
(***************************************************************************)
\* The run has considered the agent, and the agent had resources available
\* when the run started.
ConsideredWithResources(slaveId) ==
  /\ RunEnded
  /\ slaveId \in DOMAIN slaves
  /\ \E i \in 1..Len(run.slaveIds) : run.slaveIds[i] = slaveId
  /\ \/ ~isEmpty(getAvailable(slaves[slaveId]))
     \/ \E i \in 1..Len(run.allocations) :
          run.allocations[i].slaveId = slaveId

\* The filters f1 had for role b on the agent are removed, and f1 is active,
\* subscribed to the role without suppressing it, and has no other filter.
OfferableAgain ==
  /\ nfilters > 0
  /\ "f1" \in DOMAIN frameworks
  /\ frameworks["f1"].active
  /\ RoleB \in frameworks["f1"].roles
  /\ RoleB \notin frameworks["f1"].suppressedRoles
  /\ frameworks["f1"].offerFilters = {}

OfferedOn(frameworkId, slaveId) ==
  \E i \in 1..Len(run.allocations) :
    /\ run.allocations[i].frameworkId = frameworkId
    /\ run.allocations[i].slaveId = slaveId

EventuallyRemoved ==
  \A id \in 1..MaxFilters : (filterOwners(id) # {}) ~> (filterOwners(id) = {})

ReviveClearsGivenRoles ==
  [][\A roles_ \in {{}, {RoleQ}, {RoleB}} :
       ("f1" \in DOMAIN frameworks /\ reviveOffers("f1", roles_)) =>
         LET revived == IF roles_ = {} THEN frameworks["f1"].roles
                        ELSE roles_
         IN  /\ \A x \in frameworks["f1"].offerFilters :
                  x \in frameworks'["f1"].offerFilters <=>
                    x.role \notin revived
             /\ frameworks'["f1"].offerFilters
                  \subseteq frameworks["f1"].offerFilters
             /\ frameworks'["f1"].inverseOfferFilters = {}
             /\ frameworks'["f1"].suppressedRoles =
                  frameworks["f1"].suppressedRoles \ revived
             /\ \A role \in revived :
                  "f1" \in frameworkSorters'[role].active
             /\ \A role \in frameworks["f1"].roles \ revived :
                  "f1" \in frameworkSorters'[role].active <=>
                    "f1" \in frameworkSorters[role].active
             /\ ~paused =>
                  /\ DOMAIN slaves \subseteq allocationCandidates'
                  /\ allocation' = "pending"
                  /\ dispatched' > 0
             /\ slaves' = slaves]_vars

\* reviveOffers for role q has removed the filter of role q and left the
\* filter of role b installed, and the agent is a candidate of the next run.
RevivedOneRole ==
  /\ op.name = "reviveOffers"
  /\ "f1" \in DOMAIN frameworks
  /\ nfilters = 2
  /\ {x.role : x \in frameworks["f1"].offerFilters} = {RoleB}
  /\ "a1" \in allocationCandidates


(***************************************************************************)
(* C20: the filters of an agent that is removed or comes back changed      *)
(***************************************************************************)
\* The filters in `fws`, on offers and on inverse offers, that refer to the
\* agent.
FiltersReferring(fws, slaveId) ==
  {x \in InstalledIn(fws) : x[3].slaveId = slaveId}

\* C20: after removeSlave(a), and after updateSlave(a) with changed
\* attributes, no framework holds an offer filter or an inverse offer filter
\* that refers to agent a (nor, at any time, to an agent that is not
\* registered); updateSlave(a) with unchanged attributes leaves all filters in
\* place.
AgentFiltersCleared ==
  /\ [](\A x \in InstalledIn(frameworks) : x[3].slaveId \in DOMAIN slaves)
  /\ [][/\ Calls("removeSlave") =>
             FiltersReferring(frameworks', op'.slaveId) = {}
        /\ Calls("updateSlave") =>
             IF slaves'[op'.slaveId].info.attributes
                  # slaves[op'.slaveId].info.attributes
             THEN FiltersReferring(frameworks', op'.slaveId) = {}
             ELSE frameworks' = frameworks]_vars

\* updateSlave with changed attributes has removed a filter whose timeout
\* had fired already: its expire() is still in the queue.
ClearedByChangedAttributes ==
  /\ op.name = "updateSlave"
  /\ nops = 4
  /\ "a1" \in DOMAIN slaves
  /\ slaves["a1"].info.attributes = {"rack"}
  /\ InstalledIn(frameworks) = {}
  /\ \E d \in expiryDispatches : d.call = "expire"


(***************************************************************************)
(* C21: inverse offers are not repeated while one is outstanding           *)
(***************************************************************************)
\* deallocate() has run to its end in this step.
Deallocates == run.pc = "offer" /\ run'.pc = "idle"

\* This step passes an inverse offer for (frameworkId, slaveId) to the master.
EmitsInverseOffer(frameworkId, slaveId) ==
  /\ Deallocates
  /\ frameworkId \in DOMAIN inverseOfferCallback'
  /\ slaveId \in DOMAIN inverseOfferCallback'[frameworkId]

Outstanding(frameworkId, slaveId) ==
  /\ slaveId \in DOMAIN slaves
  /\ slaves[slaveId].maintenance # Nothing
  /\ frameworkId \in slaves[slaveId].maintenance[1].offersOutstanding

\* C21 as stated: once an inverse offer for (f, A) has been emitted, no run
\* emits another one for (f, A) until updateInverseOffer(A, f, ...) has
\* cleared it.
NoInverseOfferUntilUpdateInverseOffer ==
  [][\A f \in FrameworkIds, s \in SlaveIds :
       <<f, s>> \in inverseOffers => ~EmitsInverseOffer(f, s)]_vars

\* C21: an inverse offer for (f, A) is emitted only when none is marked
\* outstanding for (f, A), and the emission marks it outstanding; the mark
\* stays until updateInverseOffer(A, f, ...) clears it, updateUnavailability
\* replaces the maintenance of A, or A is removed.  A run emits one inverse
\* offer per (f, A), whatever the number of roles f holds resources of A in.
NoInverseOfferWhileOutstanding ==
  [][\A f \in FrameworkIds, s \in SlaveIds :
       /\ EmitsInverseOffer(f, s) =>
            /\ ~Outstanding(f, s)
            /\ Outstanding(f, s)'
            /\ <<f, s>> \in inverseOffers'
       /\ (Outstanding(f, s) /\ ~Outstanding(f, s)') =>
            \/ /\ Calls("updateInverseOffer")
               /\ op'.frameworkId = f
               /\ op'.slaveId = s
            \/ Calls("updateUnavailability") /\ op'.slaveId = s
            \/ Calls("removeSlave") /\ op'.slaveId = s]_vars

\* A run that found the inverse offer of f1 outstanding has emitted nothing,
\* f1 holding resources of the agent in both of its roles.
OutstandingNotRepeated ==
  /\ run.pc = "idle"
  /\ op.name = "_allocate"
  /\ Outstanding("f1", "a1")
  /\ <<"f1", "a1">> \in inverseOffers
  /\ inverseOfferCallback = EmptyMap
  /\ ~isEmpty(held("f1", "a1", RoleQ))
  /\ ~isEmpty(held("f1", "a1", RoleB))


(***************************************************************************)
(* C22: updateInverseOffer clears the outstanding inverse offer and        *)
(* stores the status of the response                                       *)
(***************************************************************************)
Responses == {Nothing, Some("ACCEPT"), Some("DECLINE")}

\* getInverseOfferStatuses() returns `status` for (slaveId, frameworkId).
StatusReturned(statuses, slaveId, frameworkId, status) ==
  /\ slaveId \in DOMAIN statuses
  /\ frameworkId \in DOMAIN statuses[slaveId]
  /\ statuses[slaveId][frameworkId] = status

\* C22 as stated: the inverse offer is no longer outstanding after the call
\* and, when a status is provided, a following getInverseOfferStatuses
\* returns that status.
StatusProvidedIsReturned ==
  [][\A status \in Responses, filters \in {Nothing, Some(5)} :
       updateInverseOffer("a1", "f1", status, filters) =>
         /\ ~Outstanding("f1", "a1")'
         /\ status # Nothing =>
              StatusReturned(getInverseOfferStatuses', "a1", "f1",
                             status[1])]_vars

\* C22: the inverse offer is no longer outstanding after the call; when it
\* was outstanding and a status is provided, a following
\* getInverseOfferStatuses returns that status; in every other case the
\* statuses are what they were.
StatusOfOutstandingIsReturned ==
  [][\A status \in Responses, filters \in {Nothing, Some(5)} :
       updateInverseOffer("a1", "f1", status, filters) =>
         /\ ~Outstanding("f1", "a1")'
         /\ IF Outstanding("f1", "a1") /\ status # Nothing
            THEN StatusReturned(getInverseOfferStatuses', "a1", "f1",
                                status[1])
            ELSE getInverseOfferStatuses' = getInverseOfferStatuses]_vars

\* The framework has accepted the inverse offer it was sent: the call is the
\* third of the master, after the framework and the agent were added.
AcceptedInverseOffer ==
  /\ op.name = "updateInverseOffer"
  /\ nops = 3
  /\ <<"f1", "a1">> \notin inverseOffers
  /\ ~Outstanding("f1", "a1")
  /\ StatusReturned(getInverseOfferStatuses, "a1", "f1", "ACCEPT")


(***************************************************************************)
(* C23: recovering exactly what a run allocated restores the allocations   *)
(***************************************************************************)
\* The recorded allocations `A` with the offer `key` (framework, role,
\* agent) of `resources` added.
WithOffer(A, key, resources) ==
  [A EXCEPT
     !.roleSorter[key[2]][key[3]] = plus(@, resources),
     !.quotaRoleSorter =
       IF key[2] \in DOMAIN quotaGuarantees
       THEN [@ EXCEPT ![key[2]][key[3]] = plus(@, resources)]
       ELSE @,
     !.frameworkSorters[key[2]][key[1]][key[3]] = plus(@, resources),
     !.allocated[key[3]][key[2]] = plus(@, resources)]

\* The allocations before the last run made the offer `key`: those recorded
\* when the run began and the other offers of the run.
BeforeOffer(key) ==
  FoldSet(LAMBDA other, A : WithOffer(A, other, offerCallback[other]),
          beforeRun, DOMAIN offerCallback \ {key})

\* C23: when a run has allocated R on agent a to framework f under role r and
\* recoverResources(f, a, R) is called next with exactly R and no filters,
\* the allocations recorded in the role sorter, the quota role sorter and the
\* framework sorters, and the allocated resources of the agents, are those
\* before the allocation.
RecoverRestoresAllocations ==
  [][\A key \in DOMAIN offerCallback :
       (/\ op.name = "_allocate"
        /\ recoverResources(key[1], key[3], key[2], offerCallback[key],
                            Nothing))
       => Allocations' = BeforeOffer(key)]_vars

\* The only offer of a run, of role q under a guarantee to a framework that
\* held resources before, has been returned: the allocations are those the
\* run began with.
RecoveredQuotaOffer ==
  /\ op.name = "recoverResources"
  /\ RoleQ \in DOMAIN quotaGuarantees
  /\ DOMAIN offerCallback = {<<op.frameworkId, RoleQ, op.slaveId>>}
  /\ Allocations = beforeRun
  /\ ~isEmpty(held(op.frameworkId, op.slaveId, RoleB))


(***************************************************************************)
(* C24: addFramework followed by removeFramework leaves no trace           *)
(***************************************************************************)
\* C24: addFramework(f, info, used = {}, ...) immediately followed by
\* removeFramework(f) leaves the role registry, the framework sorters, the
\* role sorter and the quota role sorter, and the agents with their total and
\* allocated resources, as they were before addFramework; from the initial
\* state, where f is the first framework of its roles, nothing of the roles
\* is left.
AddThenRemoveFramework ==
  /\ [][\A frameworkId \in {"f1", "f2"}, active \in BOOLEAN,
          suppressedRoles \in {{}, {RoleB}} :
          addFramework(frameworkId,
                       frameworkInfo(AddRemoveRoles(frameworkId),
                                     FullFramework),
                       EmptyMap, active, suppressedRoles)
          => /\ untrackFramework(Tracking', quotaGuarantees', frameworkId,
                                 frameworks'[frameworkId]) = Tracking
             /\ slaves' = slaves]_vars
  /\ [][Calls("removeFramework") =>
          /\ Tracking' = untrackFramework(Tracking, quotaGuarantees,
                                          op'.frameworkId,
                                          frameworks[op'.frameworkId])
          /\ slaves' = slaves]_vars
  /\ [](op.name = "removeFramework" /\ nops = 2 =>
          /\ roles = EmptyMap
          /\ frameworkSorters = EmptyMap
          /\ roleSorter = NewSorter
          /\ slaves = EmptyMap)

\* The first framework of roles q and b was added and removed at once: the
\* roles were created and have collapsed.
RoleCreatedThenCollapsed ==
  /\ op.name = "removeFramework"
  /\ op.frameworkId = "f1"
  /\ nops = 2
  /\ DOMAIN roles = {}
  /\ DOMAIN frameworkSorters = {}


(***************************************************************************)
(* C25: the reservation tracker agrees with the totals of the agents       *)
(***************************************************************************)
\* The quantity of the scalar `name` that the registered agents hold in
\* their totals reserved to the role or to one of its descendants.
ReservedOnAgents(role, name) ==
  FoldSet(LAMBDA slaveId, n :
            n + Sum(slaves[slaveId].total,
                    {k \in Kinds : /\ k.name = name
                                   /\ k.rsv # Unreserved
                                   /\ isRoleOrDescendant(k.rsv, role)}),
          0, DOMAIN slaves)

\* C25: for every role the tracked reservationScalarQuantities are the sum,
\* over the registered agents, of the scalar quantities of the totals
\* reserved to the role or to a descendant of it, and no role is tracked with
\* an empty quantity.
ReservationsTracked ==
  /\ \A role \in Roles, name \in ScalarNames :
       quantitiesOf(reservationScalarQuantities, role)[name] =
         ReservedOnAgents(role, name)
  /\ \A role \in DOMAIN reservationScalarQuantities :
       /\ role \in Roles
       /\ ~qEmpty(reservationScalarQuantities[role])

\* A total was updated while two agents hold reservations of b and of its
\* descendant b/c: both are counted for b.
DescendantReservationsTracked ==
  /\ op.name \in {"updateAvailable", "updateAllocation", "updateSlave",
                  "addResourceProvider", "removeSlave"}
  /\ DOMAIN slaves = {"a1", "a2"}
  /\ quantitiesOf(reservationScalarQuantities, RoleBC)["cpus"] >= 1
  /\ quantitiesOf(reservationScalarQuantities, RoleB)["cpus"] >= 3


(***************************************************************************)
(* C26: updateAvailable fails without effect or applies the operations     *)
(***************************************************************************)
\* The totals of the agents as the sorters hold them.
SorterTotals ==
  [roleSorter |-> roleSorter.total,
   quotaRoleSorter |-> quotaRoleSorter.total,
   frameworkSorters |->
     [role \in DOMAIN frameworkSorters |-> frameworkSorters[role].total]]

\* The resources of the agent that are not allocated hold what the
\* operation consumes.
Applicable(slaveId, operation) ==
  \A k \in Kinds :
    LET allocated ==
          Sum([role \in Roles |-> slaves[slaveId].allocated[role][k]], Roles)
        available ==
          IF slaves[slaveId].total[k] >= allocated
          THEN slaves[slaveId].total[k] - allocated ELSE 0
    IN  available >= operation[1][k]

\* C26: updateAvailable(a, operations) whose operations cannot be applied to
\* the available resources of a fails and leaves the total of a, the totals
\* of the sorters and the reservation tracker unchanged; when they can be
\* applied the call succeeds and the total of a is the old total with the
\* operations applied.
UpdateAvailableFailsOrApplies ==
  /\ [][\A operation \in ReservationsOperations :
          updateAvailable("a1", operation) =>
            IF ~Applicable("a1", operation)
            THEN /\ slaves' = slaves
                 /\ SorterTotals' = SorterTotals
                 /\ reservationScalarQuantities' = reservationScalarQuantities
            ELSE /\ slaves'["a1"].total =
                      plus(minus(slaves["a1"].total, operation[1]),
                           operation[2])
                 /\ roleSorter'.total["a1"] = slaves'["a1"].total]_vars
  /\ [](\A operation \in ReservationsOperations :
          (Idle /\ nops < maxOps /\ "a1" \in DOMAIN slaves) =>
            ENABLED updateAvailable("a1", operation))

\* A run has allocated everything the agent has, and the updateAvailable
\* that followed has failed: the total is the one the agent was added with.
UpdateAvailableFailed ==
  /\ op.name = "updateAvailable"
  /\ nops = 3
  /\ "a1" \in DOMAIN slaves
  /\ slaves["a1"].total \in ReservationsTotals
  /\ isEmpty(getAvailable(slaves["a1"]))


(***************************************************************************)
(* C27: removing an agent keeps the allocations the sorters record for it  *)
(***************************************************************************)
\* The allocations the sorters record.
SorterAllocations ==
  [roleSorter |-> roleSorter.alloc,
   quotaRoleSorter |-> quotaRoleSorter.alloc,
   frameworkSorters |->
     [role \in DOMAIN frameworkSorters |-> frameworkSorters[role].alloc]]

\* C27: removeSlave(a) does not change the allocations recorded for a in the
\* sorters, and a later recoverResources for the removed agent passes every
\* CHECK, takes the resources out of the sorters and leaves the agents as
\* they are.
RemovedAgentKeepsAllocations ==
  /\ [][Calls("removeSlave") => SorterAllocations' = SorterAllocations]_vars
  /\ [](\A role \in {RoleQ, RoleB}, filters \in {Nothing, Some(5)} :
          (/\ Idle
           /\ nops < maxOps
           /\ "a1" \notin DOMAIN slaves
           /\ ~isEmpty(held("f1", "a1", role)))
          => ENABLED recoverResources("f1", "a1", role,
                                      held("f1", "a1", role), filters))
  /\ [][\A role \in {RoleQ, RoleB}, filters \in {Nothing, Some(5)} :
          (/\ "a1" \notin DOMAIN slaves
           /\ recoverResources("f1", "a1", role, held("f1", "a1", role),
                               filters))
          => /\ isEmpty(held("f1", "a1", role)')
             /\ slaves' = slaves
             /\ frameworks' = frameworks]_vars

\* The framework has returned what it held on the agent after the agent was
\* removed: the call is the fourth, after the framework and the agent were
\* added, a run allocated the resources and the agent was removed.
RecoveredAfterRemoval ==
  /\ op.name = "recoverResources"
  /\ op.slaveId = "a1"
  /\ nops = 4
  /\ DOMAIN slaves = {}
  /\ "f1" \in DOMAIN frameworks
  /\ \A role \in {RoleQ, RoleB} : isEmpty(held("f1", "a1", role))


(***************************************************************************)
(* C28: Stage 1 stays within the unsatisfied guarantee                     *)
(***************************************************************************)
Stage1Pcs == {"stage1", "stage1_role", "stage1_framework"}

\* The step allocates in Stage 1.
Stage1Allocates ==
  /\ run.pc = "stage1_framework"
  /\ run'.pc # "aborted"
  /\ Len(run'.allocations) = Len(run.allocations) + 1

\* The quantity of the scalar `name` in the unreserved part of `resources`.
UnreservedQuantity(resources, name) ==
  Sum(resources, {k \in Kinds : k.name = name /\ k.rsv = Unreserved})

\* C28: the unreserved resources of a name with a guarantee that a step of
\* Stage 1 allocates to a role do not exceed the unsatisfied guarantee of the
\* role (guarantee - consumed quota) at that step; no step of Stage 1 raises
\* the consumed quota of the role for that name above the larger of the
\* guarantee and of the quota consumed when the run started; Stage 1
\* allocates no revocable resources.
Stage1WithinGuarantee ==
  /\ [][Stage1Allocates =>
          LET e == run'.allocations[Len(run'.allocations)]
              guarantee == quotaGuarantees[e.role]
              consumed == run.rolesConsumedQuota[e.role]
          IN  /\ e.stage = 1
              /\ e.role \in DOMAIN quotaGuarantees
              /\ \A name \in ScalarNames :
                   guarantee[name] > 0 =>
                     UnreservedQuantity(e.resources, name)
                       <= (IF guarantee[name] >= consumed[name]
                           THEN guarantee[name] - consumed[name] ELSE 0)
              /\ \A k \in Kinds : k.rev => e.resources[k] = 0]_vars
  /\ [][(run.pc \in Stage1Pcs /\ run'.pc # "idle") =>
          \A role \in DOMAIN quotaGuarantees, name \in ScalarNames :
            quotaGuarantees[role][name] > 0 =>
              run'.rolesConsumedQuota[role][name]
                <= max(quotaGuarantees[role][name],
                       run.startConsumedQuota[role][name])]_vars

\* Stage 1 has given role b one of the two free cpus of an agent: what the
\* guarantee of b still lacked.
Stage1ShrunkToGuarantee ==
  /\ Running
  /\ \E i \in 1..Len(run.allocations) :
       LET e == run.allocations[i]
       IN  /\ e.stage = 1
           /\ e.role = RoleB
           /\ e.resources[CpusU] = 1
           /\ run.startAvailable["cpus"] >= 2
           /\ run.startConsumedQuota[RoleB]["cpus"] = 0


(***************************************************************************)
(* C29: the conditions and the content of an inverse offer                 *)
(***************************************************************************)
\* C29: an inverse offer for (f, A) is emitted only if, when deallocate()
\* runs, A is an allocation candidate with maintenance scheduled, f is
\* active, f holds an allocation on A in some framework sorter, no inverse
\* offer for (f, A) is outstanding and f has no unexpired inverse offer
\* filter for A; the inverse offer carries the unavailability of A and no
\* resources, and (f, A) is recorded as outstanding.
InverseOfferOnlyIfDue ==
  [][\A f \in FrameworkIds, s \in SlaveIds :
       EmitsInverseOffer(f, s) =>
         /\ s \in allocationCandidates
         /\ s \in DOMAIN slaves
         /\ slaves[s].maintenance # Nothing
         /\ f \in DOMAIN frameworks
         /\ frameworks[f].active
         /\ \E role \in DOMAIN frameworkSorters : ~isEmpty(held(f, s, role))
         /\ f \notin slaves[s].maintenance[1].offersOutstanding
         /\ \A x \in frameworks[f].inverseOfferFilters :
              x.slaveId = s => x.id \notin expiryTimers
         /\ inverseOfferCallback'[f][s] =
              [resources |-> NoResources,
               unavailability |-> slaves[s].maintenance[1].unavailability]
         /\ f \in slaves'[s].maintenance[1].offersOutstanding]_vars

\* An inverse offer filter of the framework for the agent has timed out and
\* a run has emitted an inverse offer for the agent to the framework.
InverseOfferAfterFilter ==
  /\ run.pc = "idle"
  /\ op.name = "_allocate"
  /\ "f1" \in DOMAIN inverseOfferCallback
  /\ "a1" \in DOMAIN inverseOfferCallback["f1"]
  /\ inverseOfferCallback["f1"]["a1"].resources = NoResources
  /\ "f1" \in DOMAIN frameworks
  /\ \E x \in frameworks["f1"].inverseOfferFilters :
       x.slaveId = "a1" /\ x.id \notin expiryTimers


\* The framework holds resources under the role on some agent.
HoldsUnder(frameworkId, role) ==
  \E s \in SlaveIds : ~isEmpty(held(frameworkId, s, role))

\* C30: after updateFramework(f, info, suppressed) the suppressed roles of f
\* are the given ones, f has no offer filter for a role it unsubscribed from,
\* f is not active in the sorter of such a role, and f is still tracked
\* under such a role exactly if it holds resources under it; and a
\* recoverResources of f for a role it is tracked under without being
\* subscribed to it untracks f exactly if it returns all that f still holds
\* under the role.
UpdateFrameworkUnsubscribes ==
  [][/\ \A roles_ \in SUBSET {RoleQ, RoleB},
          suppressedRoles \in SUBSET {RoleQ, RoleB}, f \in FrameworkIds :
          updateFramework(f, frameworkInfo(roles_, FullFramework),
                          suppressedRoles) =>
            /\ frameworks'[f].suppressedRoles = suppressedRoles
            /\ \A role \in frameworks[f].roles \ roles_ :
                 /\ \A x \in frameworks'[f].offerFilters : x.role # role
                 /\ role \in DOMAIN frameworkSorters' =>
                      f \notin frameworkSorters'[role].active
                 /\ isFrameworkTrackedUnderRole(Tracking', f, role) <=>
                      HoldsUnder(f, role)
     /\ \A f \in DOMAIN frameworks, s \in SlaveIds, role \in {RoleQ, RoleB},
          filters \in {Nothing, Some(5)}, n \in 1..2 :
          LET resources == Res({<<CpusU, n>>})
          IN  /\ recoverResources(f, s, role, resources, filters)
              /\ role \notin frameworks[f].roles
              /\ isFrameworkTrackedUnderRole(Tracking, f, role)
              => /\ isFrameworkTrackedUnderRole(Tracking', f, role) <=>
                      \E s2 \in SlaveIds :
                        ~isEmpty(IF s2 = s
                                 THEN minus(held(f, s2, role), resources)
                                 ELSE held(f, s2, role))
                 /\ role \in DOMAIN frameworkSorters' =>
                      f \notin frameworkSorters'[role].active]_vars

\* The framework has left a role under which it held two cpus, has returned
\* one of them with a filter and stayed tracked under the role, and has
\* returned the other with a filter and is no longer tracked under it.
UntrackedByLastRecover ==
  /\ op.name = "recoverResources"
  /\ "f1" \in DOMAIN frameworks
  /\ "a1" \in DOMAIN slaves
  /\ \E role \in {RoleQ, RoleB} :
       /\ role \notin frameworks["f1"].roles
       /\ ~isFrameworkTrackedUnderRole(Tracking, "f1", role)
       /\ isEmpty(slaves["a1"].allocated[role])
       /\ Cardinality(frameworks["f1"].offerFilters) = 2
       /\ \A x \in frameworks["f1"].offerFilters :
            x.role = role /\ x.resources = Res({<<CpusU, 1>>})


\* The allocations of the run in progress that include the resource of the
\* agent.
AllocationsOf(slaveId, k) ==
  {n \in 1..Len(run.allocations) :
     /\ run.allocations[n].slaveId = slaveId
     /\ run.allocations[n].resources[k] > 0}

\* The offers passed to the offer callback that include the resource of the
\* agent.
OffersOf(slaveId, k) ==
  {key \in DOMAIN offerCallback : key[3] = slaveId /\ offerCallback[key][k] > 0}

HierarchicalReservations(role) ==
  SumQuantities(
    [s \in DOMAIN slaves |->
       fromScalarResources(
         scalars(filter(slaves[s].total,
                        LAMBDA k : /\ ~isUnreserved(k)
                                   /\ isRoleOrDescendant(k.rsv, role))))],
    DOMAIN slaves)

\* The unreserved non-revocable scalars the role sorter holds as allocated
\* to the role and to its sub-roles.
UnreservedAllocations(role) ==
  LET clients == {r \in roleSorter.clients : isRoleOrDescendant(r, role)}
  IN  SumQuantities(
        [r \in clients |->
           fromScalarResources(
             scalars(nonRevocable(unreserved(
               SumResources(roleSorter.alloc[r], SlaveIds)))))],
        clients)

\* Sum over the quota'ed roles of max(0, guarantee - consumed quota), by
\* resource name.
UnsatisfiedGuarantees ==
  [name \in ScalarNames |->
     Sum([role \in DOMAIN quotaGuarantees |->
            IF quotaGuarantees[role][name] >
                 run.rolesConsumedQuota[role][name]
            THEN quotaGuarantees[role][name] -
                   run.rolesConsumedQuota[role][name]
            ELSE 0],
         DOMAIN quotaGuarantees)]

\* C32: at every point of stage 1 of a run the consumed quota kept by the
\* run for each quota'ed role is the role's hierarchical reservations plus
\* the unreserved non-revocable scalars allocated to the role and to its
\* sub-roles in the state reached, and the required headroom is the sum
\* over the quota'ed roles of what their guarantees lack.
ConsumedQuotaMatchesSeeding ==
  run.pc \in Stage1Pcs =>
    /\ \A role \in DOMAIN quotaGuarantees :
         run.rolesConsumedQuota[role] =
           qPlus(HierarchicalReservations(role), UnreservedAllocations(role))
    /\ run.requiredHeadroom = UnsatisfiedGuarantees

\* Stage 1 has allocated to the framework of b, which held an unreserved cpu
\* when the run began, on agents with a reservation of b or b/c, and the run
\* is still in stage 1.
ConsumedQuotaGrownInStage1 ==
  /\ run.pc \in Stage1Pcs
  /\ Len(run.allocations) >= 1
  /\ RoleB \in DOMAIN quotaGuarantees
  /\ run.rolesConsumedQuota[RoleB]["cpus"] >
       run.startConsumedQuota[RoleB]["cpus"]
  /\ run.startConsumedQuota[RoleB]["cpus"] >
       HierarchicalReservations(RoleB)["cpus"]
  /\ HierarchicalReservations(RoleB)["cpus"] > 0


\* The run has seeded its headroom and has not yet visited an agent.
RunSeeded ==
  /\ run.pc = "stage1"
  /\ run.i = 1
  /\ run.allocations = <<>>

\* C33: the available headroom a run computes at its start is the sum over
\* the registered agents of their unallocated, unreserved, non-revocable
\* scalar resources.
AvailableHeadroomIsFree ==
  RunSeeded => run.availableHeadroom = freeUnreserved

(***************************************************************************)
(* C34: an offer filter and the next run of the periodic loop.             *)
(***************************************************************************)
FilterIds == 1..(MaxFilters + 1)

\* The step removes the installed filter `id` by the filter's own expiry.
RemovedByExpiry(id) ==
  /\ op'.name \in {"expire", "_expire"}
  /\ id \in installedFilters
  /\ id \notin installedFilters'

CandidatesAreRegistered ==
  /\ allocationCandidates \subseteq DOMAIN slaves
  /\ run.pc # "aborted"
  /\ run.pc # "idle" => ~deallocateFails

\* An agent was removed while the run requested for it and for the other
\* agent is pending.
RemovedWhileRunPending ==
  /\ op.name = "removeSlave"
  /\ op.slaveId \notin DOMAIN slaves
  /\ allocation = "pending"
  /\ dispatched > 0
  /\ allocationCandidates # {}

(***************************************************************************)
(* C36: the frameworks active in a framework sorter and the active flag.   *)
(***************************************************************************)
\* C36 as stated: every framework that is active in the framework sorter
\* of a role has its active flag set, the CHECK(framework.active) of stage 1
\* does not fail, and no run offers resources to a deactivated framework.
SorterActiveIsActive ==
  /\ \A role \in DOMAIN frameworkSorters :
       \A f \in frameworkSorters[role].active :
         f \in DOMAIN frameworks /\ frameworks[f].active
  /\ run.pc # "aborted"
  /\ run.pc \notin {"idle", "aborted"} =>
       \A i \in 1..Len(run.allocations) :
         frameworks[run.allocations[i].frameworkId].active

(***************************************************************************)
(* C37: the registry of roles and the sorters.                             *)
(***************************************************************************)
\* C37: the roles of the registry are the roles that have a framework
\* sorter and the clients of the role sorter; every registered role has a
\* tracked framework; the frameworks registered under a role are the
\* clients of the role's framework sorter; the clients of the quota role
\* sorter are the roles with a quota guarantee.
RegistryMatchesSorters ==
  /\ DOMAIN roles = DOMAIN frameworkSorters
  /\ DOMAIN roles = roleSorter.clients
  /\ \A role \in DOMAIN roles :
       /\ roles[role] # {}
       /\ roles[role] = frameworkSorters[role].clients
  /\ quotaRoleSorter.clients = DOMAIN quotaGuarantees

\* The last framework of the quota'ed role b has just been untracked: the
\* role has left the registry and the role sorter and stays in the quota
\* role sorter; another role is still registered.
QuotaRoleLeftRegistry ==
  /\ op.name \in {"removeFramework", "updateFramework", "recoverResources"}
  /\ RoleB \in DOMAIN quotaGuarantees
  /\ RoleB \notin DOMAIN roles
  /\ DOMAIN roles # {}
  /\ "a1" \in DOMAIN slaves

(***************************************************************************)
(* C38: the inverse offers passed to the master.                           *)
(***************************************************************************)
\* C38 as stated: every call of the inverse offer callback by deallocate()
\* carries at least one agent; a framework for which the run recorded no
\* new inverse offer receives no callback.
InverseOfferCallbackCarriesAgent ==
  \A f \in DOMAIN inverseOfferCallback : DOMAIN inverseOfferCallback[f] # {}

(***************************************************************************)
(* C39: offers and the roles a framework is subscribed to.                 *)
(***************************************************************************)
\* C39 as stated: every offer of a run is made to a framework for a role
\* the framework is subscribed to, with resources that are not empty and
\* are allocated to that role; a framework that is tracked under a role it
\* unsubscribed from is not offered resources for that role.
OffersForSubscribedRoles ==
  run.pc \notin {"idle", "aborted"} =>
    /\ \A i \in 1..Len(run.allocations) :
         LET a == run.allocations[i]
         IN  /\ a.role \in frameworks[a.frameworkId].roles
             /\ ~isEmpty(a.resources)
    /\ \A key \in DOMAIN run.offerable :
         /\ key[2] \in frameworks[key[1]].roles
         /\ ~isEmpty(run.offerable[key])

(***************************************************************************)
(* C40: the pause and the expected count of agents.                        *)
(***************************************************************************)
\* C40 as stated: whenever the allocator is paused, expectedAgentCount is
\* set, so the CHECK(!paused || expectedAgentCount.isSome()) of addSlave
\* holds in every reachable state.
PausedHasExpectedAgentCount == paused => expectedAgentCount # Nothing

====
